---- MODULE Spec2Model ----
(***************************************************************************)
(* Model of the render-engine job protocol of the Shein_API backend:       *)
(*   - services/workflow_service.py : background-replace ("compositing")   *)
(*     pipeline: update_workflow, download_processed_image,                *)
(*     process_images_api;                                                 *)
(*   - services/mask_service.py : masking pipeline: _process_single_image, *)
(*     _poll_history, process_image.                                       *)
(* SpecGraph drives the two orchestrators (graph mutation, submission);    *)
(* SpecPoll drives the two polling loops against an arbitrary engine;      *)
(* SpecUpload the two upload functions with their retries; SpecDownload    *)
(* the fetching of the output images; SpecPair the pairing of inputs and   *)
(* masks; SpecBatch the batch prerequisites over the prompt data;          *)
(* SpecRequest the handler of POST /process_images (routes/workflow.py)    *)
(* around the batch, with the task routes; SpecStyle the matching of style *)
(* names to files; SpecNames the unique names of a pair's uploads;         *)
(* SpecServer the event loop and the worker threads serving the requests   *)
(* of routes/mask.py and routes/workflow.py; SpecStamp the background,     *)
(* style and prompt written into the jobs of a batch; SpecMaskWait and     *)
(* SpecJobWait a wait followed by the reading of its answer; SpecCount the *)
(* batch with a pair that may raise; SpecOutputs the output files of the   *)
(* pairs; SpecArchive the masking of an archive and its result ZIP;        *)
(* SpecRename process_images of services/rename_service.py; SpecGender     *)
(* modify_backgrounds_for_gender of services/promptmap_service.py;         *)
(* SpecPick the engine URL chosen by _pick_comfy_url.                      *)
(***************************************************************************)
EXTENDS Integers, Sequences, FiniteSets, TLC

\* ------------------------------------------------------------------ bounds
MaxPairs == 2      \* matched input/mask pairs of one compositing batch
MaxImages == 2     \* images of one masking archive

\* --------------------------------------------------------- Python values
\* Optional values: None is the empty tuple, a present value v is <<v>>.
None == << >>
Some(v) == << v >>
IsNone(o) == o = << >>
Val(o) == o[1]

\* d[k] = v on a dict d (the key is created when missing)
SetKey(d, k, v) == [x \in (DOMAIN d) \cup {k} |-> IF x = k THEN v ELSE d[x]]

\* an empty dict {}
EmptyDict == [x \in {} |-> x]

\* json.loads(json.dumps(g)) on a job graph read from a JSON file: every
\* level is rebuilt as a fresh dict with the same string keys and values.
JsonCopy(g) ==
  [n \in DOMAIN g |->
     [k \in DOMAIN g[n] |->
        IF k = "inputs" THEN [i \in DOMAIN g[n][k] |-> g[n][k][i]] ELSE g[n][k]]]

\* --------------------------------------------------- job-graph templates
\* Node identifiers the code refers to.
INPUT_NODE_ID == "54"          \* mask_service.py:9
CompNodes == {"454", "439", "256", "110", "448"}
OtherNode == "3"               \* a node no mutator refers to

FullLoadImage == [class_type |-> "LoadImage",
                  inputs |-> [image |-> "template.png", upload |-> "image"]]
FullString == [class_type |-> "String",
               inputs |-> [string |-> "template text"]]
NoInputs(ct) == [class_type |-> ct]
Sampler == [class_type |-> "KSampler", inputs |-> [seed |-> "7"]]

\* The descriptors a hand-edited template may hold for a designated node.
NodeShapes(n) ==
  IF n = "448" THEN {FullString, NoInputs("String")}
  ELSE {FullLoadImage, NoInputs("LoadImage")}

\* Every compositing template: OtherNode plus any subset of the designated
\* nodes, each with or without an "inputs" mapping.
CompTemplates ==
  UNION { { [n \in S \cup {OtherNode} |-> IF n = OtherNode THEN Sampler ELSE f[n]] :
              f \in { h \in [S -> UNION {NodeShapes(m) : m \in S}] :
                        \A m \in S : h[m] \in NodeShapes(m) } } :
          S \in SUBSET CompNodes }

\* Every masking template: OtherNode plus the input node absent, complete,
\* without "inputs", or as an empty descriptor {}.
MaskTemplates ==
  { [n \in {OtherNode} |-> Sampler] } \cup
  { [n \in {OtherNode, INPUT_NODE_ID} |-> IF n = OtherNode THEN Sampler ELSE d] :
      d \in {FullLoadImage, NoInputs("LoadImage"), EmptyDict} }

\* Names the engine may answer to an upload (POST /upload/image -> {name}),
\* by kind of asset, and prompt texts.
RemoteNames == {"r1", "r2"}
BgNames == {"bg1"}
StyleNames == {"st1"}
DEFAULT_PROMPT == "Generate a scene with the provided image and style"
PID == "job"                  \* the prompt id returned by the submission

VARIABLES
  pipeline,          \* "compositing" | "masking" : which orchestrator runs
  pc,                \* position of the orchestrator
  loaded,            \* the graph as read from the template file (never assigned again)
  workflow,          \* process_images_api: the caller's workflow object
  updated_workflow,  \* process_images_api: result of update_workflow (Optional)
  graph,             \* process_image: the graph object loaded from WORKFLOW_JSON
  graph_copy,        \* process_image: the per-image copy (Optional)
  mode,              \* process_image: "archive" | "single"
  n_items,           \* number of matched pairs / of images
  idx,               \* 1-based index of the item being processed
  input_filename, mask_filename, bg_filename, style_filename,  \* Optional names
  default_prompt,    \* prompt text of the batch
  comfy_name,        \* _process_single_image: the uploaded name (Optional)
  prompt,            \* body of the last POST /prompt: [item, graph] (Optional)
  own_input, own_mask, \* what the engine answered to the current item's uploads
  successful_images, failed_images,
  processed_images,  \* process_image: number of results appended
  outcome,           \* "running" | "ok" | "raised"
  error,             \* stage of the last failure recorded or raised ("none" before)
  \* ---- the polling loops (download_processed_image, _poll_history)
  clock,             \* time.time(), in seconds since the wait began
  attempt,           \* loop index `attempt` / poll_count: polls already made
  response,          \* kind of the answer to this iteration's history request
  history,           \* body decoded in this iteration (Optional)
  loop_exit,         \* how the polling loop was left ("none" while in it)
  node,              \* the resolved output node (Optional)
  result,            \* what the wait yields to its caller
  only_misses,       \* every answer so far was a decoded body without the job id
  seen_non200,       \* some answer so far was a non-200 status
  \* ---- process_images_api: batch prerequisites and pairing
  prompts_data,      \* the prompt data: ordered (product id, product data) pairs
  required_styles,   \* get_required_style_images(prompts_data)
  style_file_matches, \* the required styles find_style_file_matches resolved
  style_images,      \* dict style name -> uploaded name
  upload_failures,   \* style names whose upload failed
  input_folder, mask_folder,  \* os.listdir of the two folders (a list, a set)
  matching_pairs,    \* list of (image_file, mask_file)
  skipped,           \* inputs logged as "No mask found ..., skipping"
  \* ---- requests made and lines logged by the orchestrators
  submissions,       \* every POST /prompt made: [item, answer]
  waits,             \* items whose job was waited for (history polled, images fetched)
  logged_failures,   \* per-item logger.error lines written
  pair_uploads,      \* upload_image_with_retry calls made for inputs and masks
  \* ---- the upload functions (upload_image_with_retry, _upload_to_comfy)
  path_exists,       \* os.path.exists(image_path)
  upload_requests,   \* POST /upload/image requests sent
  warnings,          \* the errors logged by logger.warning, in order
  slept,             \* seconds spent in time.sleep between attempts
  last_err,          \* _upload_to_comfy: last_err (Optional)
  uploaded,          \* the name returned (Optional)
  raised,            \* the HTTPException raised: [status, detail] (Optional)
  \* ---- fetching the images of the resolved node
  images,            \* output_node['images']
  output_path,       \* the caller-supplied destination
  fetches,           \* the image entries requested from GET /view, in order
  written,           \* the paths written, in order
  downloaded_count,
  \* ---- the request handler process_images and the task registry
  h_pc,              \* position of the handler
  required_files,    \* which of the configured paths exist
  temp_dir,          \* the handler's temp_dir (Optional)
  dirs,              \* the temporary directories on disk
  answer,            \* the response or exception of the handler (Optional)
  processing_tasks,  \* the module-level dict: task id -> entry
  query_answer,      \* last answer of get_status / download_results (Optional)
  \* ---- find_style_file_matches
  style_folder,      \* the image and other files under style_folder (Optional)
  matched_files,     \* style_file_matches: style name -> file
  \* ---- the names upload_image_with_retry sends with make_unique
  now,               \* int(time.time() * 1000) as last read
  sent_names,        \* the unique_filename of every POST made, in order
  \* ---- the server: the event loop, its worker threads, the requests
  endpoint,          \* request -> "mask" | "workflow"
  r_pc,              \* request -> position of its handler
  running,           \* the request whose code the event loop thread executes (Optional)
  r_dir,             \* request -> its temp_dir (Optional)
  r_graph,           \* request -> the object its graph variable is bound to (Optional)
  heap,              \* object -> the request whose upload that graph names (Optional)
  files,             \* temp directory on disk -> the requests that wrote into it
  \* ---- process_image in archive mode: the members and the result ZIP
  a_pc,              \* position of process_image
  a_idx,             \* the loop index i of line 238
  members,           \* zip_file.filelist: the member paths, in archive order
  zip_images,        \* images: the member paths _extract_images_from_zip returned
  processed_names,   \* processed_images: the names of the results, in order
  zip_entries,       \* the names written to the result ZIP, in order (Optional)
  \* ---- FaceDetectionProcessor.process_images
  e_pc,              \* position of process_images
  image_files,       \* the image paths found by os.walk, in order
  existing_names,    \* the set existing_names
  copied,            \* every shutil.copy2 made: [src, name], in order
  errors,            \* the images whose processing raised
  \* ---- a call of a function of its arguments
  x_pc,              \* "call" | "returned"
  x_args,            \* the arguments
  x_result           \* what the call returned or raised (Optional)

gvars == << pipeline, pc, loaded, workflow, updated_workflow, graph, graph_copy,
            mode, n_items, idx, input_filename, mask_filename, bg_filename,
            style_filename, default_prompt, comfy_name, prompt, own_input,
            own_mask, successful_images, failed_images, processed_images,
            outcome, error >>

pvars == << clock, attempt, response, history, loop_exit, node, result,
            only_misses, seen_non200 >>

svars == << prompts_data, required_styles, style_file_matches, style_images,
            upload_failures >>

fvars == << input_folder, mask_folder, matching_pairs, skipped >>

jvars == << submissions, waits, logged_failures, pair_uploads >>

uvars == << path_exists, upload_requests, warnings, slept, last_err, uploaded,
            raised >>

dvars == << images, output_path, fetches, written, downloaded_count >>

hvars == << h_pc, required_files, temp_dir, dirs, answer, processing_tasks,
            query_answer >>

mvars == << style_folder, matched_files >>

nvars == << now, sent_names >>

cvars == << endpoint, r_pc, running, r_dir, r_graph, heap, files >>

avars == << a_pc, a_idx, members, zip_images, processed_names, zip_entries >>

evars == << e_pc, image_files, existing_names, copied, errors >>

xvars == << x_pc, x_args, x_result >>

\* the variables of the archive, of the renaming and of the function calls
lvars == << avars, evars, xvars >>

rvars == << hvars, mvars, nvars, cvars, lvars >>

vars == << gvars, pvars, svars, fvars, jvars, uvars, dvars, rvars >>

\* every orchestrator variable but pc
gvars_but_pc == << pipeline, loaded, workflow, updated_workflow, graph, graph_copy,
                   mode, n_items, idx, input_filename, mask_filename, bg_filename,
                   style_filename, default_prompt, comfy_name, prompt, own_input,
                   own_mask, successful_images, failed_images, processed_images,
                   outcome, error >>

\* ------------------------------------------------------ update_workflow
\* dict.get(k, default)
Get(d, k, default) == IF k \in DOMAIN d THEN d[k] ELSE default

\* The object the name updated_workflow is bound to by line 225: "copy" is
\* the fresh object built by json.loads(json.dumps(workflow)); "workflow"
\* would be the caller's object itself.
updated_workflow_alias == "workflow"
updated_workflow_binding == "copy"

\* The five guarded assignments of update_workflow, in program order:
\* <<node id, input key, value>>.
WorkflowAssignments_swapped(in_name, mask_name, bg_name, style_name, pdata) ==
  << <<"454", "image", mask_name>>,
     <<"439", "image", in_name>>,
     <<"256", "image", bg_name>>,
     <<"110", "image", style_name>>,
     <<"448", "string", Get(pdata, "text", DEFAULT_PROMPT)>> >>
WorkflowAssignments(in_name, mask_name, bg_name, style_name, pdata) ==
  << <<"454", "image", in_name>>,
     <<"439", "image", mask_name>>,
     <<"256", "image", bg_name>>,
     <<"110", "image", style_name>>,
     <<"448", "string", Get(pdata, "text", DEFAULT_PROMPT)>> >>

\* One statement `if n in g: g[n]['inputs'][k] = v` on the state
\* st = [g |-> graph, ok |-> no exception so far]. A present node without
\* an 'inputs' key raises KeyError; an absent node is skipped.
AssignInput_create(st, a) ==
  IF ~st.ok THEN st
  ELSE IF a[1] \notin DOMAIN st.g
       THEN [st EXCEPT !.g = SetKey(st.g, a[1], [inputs |-> SetKey(EmptyDict, a[2], a[3])])]
  ELSE IF "inputs" \notin DOMAIN st.g[a[1]] THEN [st EXCEPT !.ok = FALSE]
  ELSE [st EXCEPT !.g = SetKey(st.g, a[1],
          SetKey(st.g[a[1]], "inputs", SetKey(st.g[a[1]]["inputs"], a[2], a[3])))]
AssignInput_setdefault(st, a) ==
  IF ~st.ok THEN st
  ELSE IF a[1] \notin DOMAIN st.g THEN st
  ELSE [st EXCEPT !.g = SetKey(st.g, a[1],
          SetKey(st.g[a[1]], "inputs",
                 SetKey(Get(st.g[a[1]], "inputs", EmptyDict), a[2], a[3])))]
AssignInput_fresh_inputs(st, a) ==
  IF ~st.ok THEN st
  ELSE IF a[1] \notin DOMAIN st.g THEN st
  ELSE IF "inputs" \notin DOMAIN st.g[a[1]] THEN [st EXCEPT !.ok = FALSE]
  ELSE [st EXCEPT !.g = SetKey(st.g, a[1],
          SetKey(st.g[a[1]], "inputs", SetKey(EmptyDict, a[2], a[3])))]
AssignInput(st, a) ==
  IF ~st.ok THEN st
  ELSE IF a[1] \notin DOMAIN st.g THEN st
  ELSE IF "inputs" \notin DOMAIN st.g[a[1]] THEN [st EXCEPT !.ok = FALSE]
  ELSE [st EXCEPT !.g = SetKey(st.g, a[1],
          SetKey(st.g[a[1]], "inputs", SetKey(st.g[a[1]]["inputs"], a[2], a[3])))]

RECURSIVE AssignAll(_, _)
AssignAll(st, as) ==
  IF as = << >> THEN st ELSE AssignAll(AssignInput(st, Head(as)), Tail(as))

\* update_workflow(workflow, ...): the statements run on the object bound to
\* updated_workflow until one raises; the except clause returns None.
\* Yields the caller's object after the call and the returned value.
update_workflow(wf, in_name, mask_name, bg_name, style_name, pdata) ==
  LET st == AssignAll([g |-> JsonCopy(wf), ok |-> TRUE],
                      WorkflowAssignments(in_name, mask_name, bg_name, style_name, pdata))
  IN  [workflow |-> IF updated_workflow_binding = "copy" THEN wf ELSE st.g,
       result   |-> IF st.ok THEN Some(st.g) ELSE None]

\* ------------------------------------------ process_images_api (batch)
\* prompts_data is an ordered dict product id -> product data; a product
\* data is a dict (a record) or another JSON value, held under "scalar".
NotADict == [scalar |-> "a string"]
IsDict(d) == "scalar" \notin DOMAIN d
DEFAULT_STYLE == "Urban street"
ProductData ==
  { [text |-> "custom prompt", style_image |-> "casual"],
    [style_image |-> "casual"],
    [style_image |-> "formal"],
    [style_image |-> ""],
    [text |-> "custom prompt"],
    NotADict }
ProductIds == << "p1", "p2" >>
PromptsData ==
  UNION { { [i \in 1..n |-> << ProductIds[i], f[i] >>] : f \in [1..n -> ProductData] } :
          n \in 0..Len(ProductIds) }

\* get_required_style_images: the truthy 'style_image' values of the
\* products that are dicts, as a set.
get_required_style_images(pd) ==
  { pd[i][2].style_image :
      i \in { j \in DOMAIN pd : /\ IsDict(pd[j][2])
                                  /\ "style_image" \in DOMAIN pd[j][2]
                                  /\ pd[j][2].style_image # "" } }

\* Lines 479-487: the first product's text, or the default text.
first_product_text(pd) ==
  IF pd # << >> /\ IsDict(pd[1][2]) THEN Get(pd[1][2], "text", DEFAULT_PROMPT)
  ELSE DEFAULT_PROMPT

\* Lines 480-487: the first product's style, or the default style.
first_product_style(pd) ==
  IF pd # << >> /\ IsDict(pd[1][2]) THEN Get(pd[1][2], "style_image", DEFAULT_STYLE)
  ELSE DEFAULT_STYLE

\* Lines 493-497: the styles style_filename may be taken from: the default
\* style when it was uploaded, else the first key of style_images, whose
\* order is that of list(set(...)) and so is any key.
style_candidates_any(ds, si) == DOMAIN si
style_candidates(ds, si) == IF ds \in DOMAIN si THEN {ds} ELSE DOMAIN si

\* A file name as os.path.splitext splits it: base and extension.
ImageExts == {".png", ".jpg", ".jpeg"}
lower(e) == CASE e = ".JPG" -> ".jpg" [] e = ".PNG" -> ".png" [] OTHER -> e

\* f.lower().endswith(('.png', '.jpg', '.jpeg'))
is_image(f) == lower(f.ext) \in ImageExts

\* [f for f in os.listdir(folder) if ...] on a listing (a sequence)
RECURSIVE listed_images(_)
listed_images(listing) ==
  IF listing = << >> THEN << >>
  ELSE (IF is_image(Head(listing)) THEN << Head(listing) >> ELSE << >>)
       \o listed_images(Tail(listing))

\* Lines 462-468: the mask paired with image_file, .jpg before .png.
mask_lookup_png_first(image_file, masks) ==
  LET image_base == image_file.base
      mask_jpg == [base |-> image_base, ext |-> ".jpg"]
      mask_png == [base |-> image_base, ext |-> ".png"]
  IN IF mask_jpg \in masks \/ mask_png \in masks
     THEN Some(IF mask_png \in masks THEN mask_png ELSE mask_jpg)
     ELSE None
mask_lookup(image_file, masks) ==
  LET image_base == image_file.base
      mask_jpg == [base |-> image_base, ext |-> ".jpg"]
      mask_png == [base |-> image_base, ext |-> ".png"]
  IN IF mask_jpg \in masks \/ mask_png \in masks
     THEN Some(IF mask_jpg \in masks THEN mask_jpg ELSE mask_png)
     ELSE None

\* Lines 460-472: the pairing loop over input_images.
RECURSIVE find_pairs(_, _)
find_pairs(imgs, masks) ==
  IF imgs = << >> THEN [pairs |-> << >>, skipped |-> << >>]
  ELSE LET m == mask_lookup(Head(imgs), masks)
           rest == find_pairs(Tail(imgs), masks)
       IN IF IsNone(m)
          THEN [pairs |-> rest.pairs, skipped |-> << Head(imgs) >> \o rest.skipped]
          ELSE [pairs |-> << << Head(imgs), Val(m) >> >> \o rest.pairs,
                skipped |-> rest.skipped]

\* Answers of the engine to POST /prompt.
SubmitAnswers == {"id", "no_id", "non2xx"}

\* submit_workflow_to_comfyui: the prompt id, or None on a missing id and
\* on any exception (raise_for_status included).
submit_workflow_lenient(ans) == Some(PID)
submit_workflow_to_comfyui(ans) == IF ans = "id" THEN Some(PID) ELSE None

\* _queue_prompt: the prompt id; raise_for_status propagates and a missing
\* id raises HTTP 500 (None stands for the exception).
queue_prompt(ans) == IF ans = "id" THEN Some(PID) ELSE None

\* `if upload_failures:` after the style uploads
styles_failed_when_all(failed, done) == done = {}
styles_failed(failed, done) == failed # {}

\* `if not matching_pairs:` after the pairing loop
pairing_failed_on_skip(r) == r.pairs = << >> \/ r.skipped # << >>
pairing_failed(r) == r.pairs = << >>

\* `if successful_images == 0` / `if not processed_images`: the batch fails.
no_success_below_two(count) == count < 2
no_success(count) == count = 0

\* `continue` / end of the loop body: next pair, or leave the loop.
NextPair ==
  IF idx < n_items THEN idx' = idx + 1 /\ pc' = "pair_upload"
  ELSE idx' = idx /\ pc' = "loop_end"

Raise(e) == outcome' = "raised" /\ pc' = "done" /\ error' = e

\* A pair counted as failed (logger.error; failed_images += 1; continue).
PairFailed_uncounted(e) ==
  /\ failed_images' = failed_images
  /\ logged_failures' = logged_failures + 1
  /\ error' = e
  /\ NextPair
PairFailed_submit_falls_through(e) ==
  /\ failed_images' = failed_images + 1
  /\ logged_failures' = logged_failures + 1
  /\ error' = e
  /\ IF e = "submit" THEN idx' = idx /\ pc' = "download" ELSE NextPair
PairFailed(e) ==
  /\ failed_images' = failed_images + 1
  /\ logged_failures' = logged_failures + 1
  /\ error' = e
  /\ NextPair

\* The pair goes on to its next stage.
PairGoes_without_wait(stage) ==
  /\ failed_images' = failed_images /\ logged_failures' = logged_failures
  /\ error' = error
  /\ IF stage = "download" THEN NextPair ELSE idx' = idx /\ pc' = stage
PairGoes(stage) ==
  /\ failed_images' = failed_images /\ logged_failures' = logged_failures
  /\ error' = error /\ idx' = idx /\ pc' = stage

\* Step 1: upload_image_with_retry(background_image_path, ...) answers a
\* remote name or None; None raises.
UploadBackground ==
  /\ pipeline = "compositing" /\ pc = "bg_upload"
  /\ \E r \in {None} \cup {Some(x) : x \in BgNames} :
       /\ bg_filename' = r
       /\ IF IsNone(r) THEN Raise("bg_upload")
          ELSE pc' = "styles" /\ outcome' = outcome /\ error' = error
  /\ UNCHANGED << pvars, svars, fvars, jvars, uvars, dvars, rvars >>
  /\ UNCHANGED << pipeline, loaded, workflow, updated_workflow, graph, graph_copy,
                  mode, n_items, idx, input_filename, mask_filename,
                  style_filename, default_prompt, comfy_name, prompt, own_input,
                  own_mask, successful_images, failed_images, processed_images >>

\* Steps 2 and 3: the required styles are read from the prompt data and
\* matched against the style folder; no required style, or a style without
\* a matching file, raises.
ResolveStyles ==
  /\ pipeline = "compositing" /\ pc = "styles"
  /\ LET required == get_required_style_images(prompts_data)
     IN /\ required_styles' = required
        /\ IF required = {}
           THEN style_file_matches' = style_file_matches /\ Raise("no_styles")
           ELSE \E matched \in SUBSET required :
                  /\ style_file_matches' = matched
                  /\ IF matched # required THEN Raise("missing_styles")
                     ELSE pc' = "style_upload" /\ outcome' = outcome /\ error' = error
  /\ UNCHANGED << prompts_data, style_images, upload_failures >>
  /\ UNCHANGED << pvars, fvars, jvars, uvars, dvars, rvars >>
  /\ UNCHANGED << pipeline, loaded, workflow, updated_workflow, graph, graph_copy,
                  mode, n_items, idx, input_filename, mask_filename, bg_filename,
                  style_filename, default_prompt, comfy_name, prompt, own_input,
                  own_mask, successful_images, failed_images, processed_images >>

\* Step 4: every matched style is uploaded; the failures are collected and
\* any failure raises after the loop.
UploadStyles ==
  /\ pipeline = "compositing" /\ pc = "style_upload"
  /\ \E ans \in [style_file_matches -> {None} \cup {Some(x) : x \in StyleNames}] :
       LET failed == { s \in style_file_matches : IsNone(ans[s]) }
       IN /\ style_images' = [s \in style_file_matches \ failed |-> Val(ans[s])]
          /\ upload_failures' = failed
          /\ IF styles_failed(failed, style_file_matches \ failed)
             THEN Raise("style_upload")
             ELSE pc' = "pairing" /\ outcome' = outcome /\ error' = error
  /\ UNCHANGED << prompts_data, required_styles, style_file_matches >>
  /\ UNCHANGED << pvars, fvars, jvars, uvars, dvars, rvars >>
  /\ UNCHANGED << pipeline, loaded, workflow, updated_workflow, graph, graph_copy,
                  mode, n_items, idx, input_filename, mask_filename, bg_filename,
                  style_filename, default_prompt, comfy_name, prompt, own_input,
                  own_mask, successful_images, failed_images, processed_images >>

\* Step 5, lines 452-508: the folders are listed, every input is paired with
\* its mask or skipped, no pair raises; then the batch's prompt text and
\* style are taken from the first product.
MatchPairs ==
  /\ pipeline = "compositing" /\ pc = "pairing"
  /\ LET r == find_pairs(listed_images(input_folder),
                         { m \in mask_folder : is_image(m) })
     IN /\ matching_pairs' = r.pairs
        /\ skipped' = r.skipped
        /\ IF pairing_failed(r)
           THEN /\ Raise("no_pairs")
                /\ UNCHANGED << n_items, default_prompt, style_filename >>
           ELSE /\ n_items' = Len(r.pairs)
                /\ default_prompt' = first_product_text(prompts_data)
                /\ \E s \in style_candidates(first_product_style(prompts_data),
                                             style_images) :
                     style_filename' = Some(style_images[s])
                /\ pc' = "pair_upload" /\ outcome' = outcome /\ error' = error
  /\ UNCHANGED << input_folder, mask_folder >>
  /\ UNCHANGED << pvars, svars, jvars, uvars, dvars, rvars >>
  /\ UNCHANGED << pipeline, loaded, workflow, updated_workflow, graph, graph_copy,
                  mode, idx, input_filename, mask_filename, bg_filename,
                  comfy_name, prompt, own_input, own_mask, successful_images,
                  failed_images, processed_images >>

\* Lines 514-524: both uploads of the pair are made; a None answer for
\* either counts the pair as failed and continues.
UploadPair ==
  /\ pipeline = "compositing" /\ pc = "pair_upload"
  /\ pair_uploads' = pair_uploads + 2
  /\ \E ri \in {None} \cup {Some(x) : x \in RemoteNames},
        rm \in {None} \cup {Some(x) : x \in RemoteNames} :
       /\ own_input' = ri /\ own_mask' = rm
       /\ input_filename' = ri /\ mask_filename' = rm
       /\ IF IsNone(ri) \/ IsNone(rm) THEN PairFailed("upload")
          ELSE PairGoes("update")
  /\ UNCHANGED << submissions, waits >>
  /\ UNCHANGED << pvars, svars, fvars, uvars, dvars, rvars >>
  /\ UNCHANGED << pipeline, loaded, workflow, updated_workflow, graph, graph_copy,
                  mode, n_items, bg_filename, style_filename, default_prompt,
                  comfy_name, prompt, successful_images, processed_images, outcome >>

\* Lines 526-538: prompt_data = {"text": default_prompt}; update_workflow;
\* a None result counts the pair as failed and continues.
UpdateWorkflow ==
  /\ pipeline = "compositing" /\ pc = "update"
  /\ LET r == update_workflow(workflow, Val(input_filename), Val(mask_filename),
                              Val(bg_filename), Val(style_filename),
                              [text |-> default_prompt])
     IN /\ workflow' = r.workflow
        /\ updated_workflow' = r.result
        /\ IF IsNone(r.result) THEN PairFailed("update") ELSE PairGoes("submit")
  /\ UNCHANGED << submissions, waits, pair_uploads >>
  /\ UNCHANGED << pvars, svars, fvars, uvars, dvars, rvars >>
  /\ UNCHANGED << pipeline, loaded, graph, graph_copy, mode, n_items,
                  input_filename, mask_filename, bg_filename, style_filename,
                  default_prompt, comfy_name, prompt, own_input, own_mask,
                  successful_images, processed_images, outcome >>

\* Lines 540-545: submit_workflow_to_comfyui posts the graph once; without
\* a prompt id the pair is counted as failed and the loop continues.
SubmitWorkflow ==
  /\ pipeline = "compositing" /\ pc = "submit"
  /\ prompt' = Some([item |-> idx, graph |-> Val(updated_workflow)])
  /\ \E ans \in SubmitAnswers :
       /\ submissions' = Append(submissions, [item |-> idx, answer |-> ans])
       /\ IF IsNone(submit_workflow_to_comfyui(ans)) THEN PairFailed("submit")
          ELSE PairGoes("download")
  /\ UNCHANGED << waits, pair_uploads >>
  /\ UNCHANGED << pvars, svars, fvars, uvars, dvars, rvars >>
  /\ UNCHANGED << pipeline, loaded, workflow, updated_workflow, graph, graph_copy,
                  mode, n_items, input_filename, mask_filename, bg_filename,
                  style_filename, default_prompt, comfy_name, own_input, own_mask,
                  successful_images, processed_images, outcome >>

\* Lines 547-556: download_processed_image waits for the job and fetches
\* its images; its boolean result decides the pair.
DownloadResult ==
  /\ pipeline = "compositing" /\ pc = "download"
  /\ waits' = waits \cup {idx}
  /\ \E ok \in BOOLEAN :
       IF ok
       THEN /\ successful_images' = successful_images + 1
            /\ failed_images' = failed_images /\ error' = error
            /\ logged_failures' = logged_failures /\ NextPair
       ELSE successful_images' = successful_images /\ PairFailed("download")
  /\ UNCHANGED << submissions, pair_uploads >>
  /\ UNCHANGED << pvars, svars, fvars, uvars, dvars, rvars >>
  /\ UNCHANGED << pipeline, loaded, workflow, updated_workflow, graph, graph_copy,
                  mode, n_items, input_filename, mask_filename, bg_filename,
                  style_filename, default_prompt, comfy_name, prompt, own_input,
                  own_mask, processed_images, outcome >>

\* Lines 563-568: zero successes raise, otherwise True is returned.
FinishBatch ==
  /\ pipeline = "compositing" /\ pc = "loop_end"
  /\ pc' = "done"
  /\ outcome' = IF no_success(successful_images) THEN "raised" ELSE "ok"
  /\ error' = IF no_success(successful_images) THEN "no_success" ELSE error
  /\ UNCHANGED << pvars, svars, fvars, jvars, uvars, dvars, rvars >>
  /\ UNCHANGED << pipeline, loaded, workflow, updated_workflow, graph, graph_copy,
                  mode, n_items, idx, input_filename, mask_filename, bg_filename,
                  style_filename, default_prompt, comfy_name, prompt, own_input,
                  own_mask, successful_images, failed_images, processed_images >>

\* --------------------------------------------- process_image (masking)
\* The graph object process_image hands to _process_single_image: the
\* per-image copy in archive mode (lines 242-243), the loaded graph itself
\* in single-image mode (line 263).
JobGraphRef(m) == IF m = "archive" THEN "graph_copy" ELSE "graph"

\* Lines 138-142 on the graph object g: the node is looked up (an absent node
\* and an empty descriptor are both falsy and raise HTTP 500); otherwise
\* node.setdefault("inputs", {})["image"] = comfy_name writes into g.
set_input_node(g, name) ==
  IF INPUT_NODE_ID \notin DOMAIN g \/ DOMAIN g[INPUT_NODE_ID] = {}
  THEN [ok |-> FALSE, g |-> g]
  ELSE [ok |-> TRUE,
        g  |-> SetKey(g, INPUT_NODE_ID,
                 SetKey(g[INPUT_NODE_ID], "inputs",
                        SetKey(Get(g[INPUT_NODE_ID], "inputs", EmptyDict), "image", name)))]

\* The graph object _process_single_image works on.
JobGraph == IF JobGraphRef(mode) = "graph_copy" THEN Val(graph_copy) ELSE graph

NextImage ==
  IF idx < n_items THEN idx' = idx + 1 /\ pc' = "m_start"
  ELSE idx' = idx /\ pc' = "m_loop_end"

\* An exception inside _process_single_image: caught and logged per image
\* in archive mode (lines 246-249), propagated in single-image mode.
MaskRaise_propagates(e) == Raise(e) /\ idx' = idx /\ logged_failures' = logged_failures
MaskRaise(e) ==
  IF mode = "archive"
  THEN NextImage /\ outcome' = outcome /\ error' = e
       /\ logged_failures' = logged_failures + 1
  ELSE Raise(e) /\ idx' = idx /\ logged_failures' = logged_failures

\* The image goes on to its next stage.
ImageGoes(stage) ==
  /\ pc' = stage /\ idx' = idx /\ outcome' = outcome /\ error' = error
  /\ logged_failures' = logged_failures

\* Lines 242 and 135: the per-image copy is made (archive mode), then
\* _upload_to_comfy returns the stamped name or raises HTTP 502.
MaskUpload ==
  /\ pipeline = "masking" /\ pc = "m_start"
  /\ graph_copy' = IF mode = "archive" THEN Some(JsonCopy(graph)) ELSE graph_copy
  /\ \E r \in {None} \cup {Some(x) : x \in RemoteNames} :
       /\ comfy_name' = r
       /\ own_input' = r
       /\ IF IsNone(r) THEN MaskRaise("upload") ELSE ImageGoes("m_set_input")
  /\ UNCHANGED << submissions, waits, pair_uploads >>
  /\ UNCHANGED << pvars, svars, fvars, uvars, dvars, rvars >>
  /\ UNCHANGED << pipeline, loaded, workflow, updated_workflow, graph, mode, n_items,
                  input_filename, mask_filename, bg_filename, style_filename,
                  default_prompt, prompt, own_mask, successful_images,
                  failed_images, processed_images >>

\* Lines 137-143: set the input node's image on the job's graph object.
MaskSetInput ==
  /\ pipeline = "masking" /\ pc = "m_set_input"
  /\ LET r == set_input_node(JobGraph, Val(comfy_name))
     IN /\ IF JobGraphRef(mode) = "graph_copy"
           THEN graph_copy' = Some(r.g) /\ graph' = graph
           ELSE graph' = r.g /\ graph_copy' = graph_copy
        /\ IF r.ok THEN ImageGoes("m_queue") ELSE MaskRaise("input_node")
  /\ UNCHANGED << submissions, waits, pair_uploads >>
  /\ UNCHANGED << pvars, svars, fvars, uvars, dvars, rvars >>
  /\ UNCHANGED << pipeline, loaded, workflow, updated_workflow, mode, n_items,
                  input_filename, mask_filename, bg_filename, style_filename,
                  default_prompt, comfy_name, prompt, own_input, own_mask,
                  successful_images, failed_images, processed_images >>

\* Line 146: _queue_prompt posts the job's graph once; a non-success status
\* or a missing prompt_id raises.
MaskQueue ==
  /\ pipeline = "masking" /\ pc = "m_queue"
  /\ prompt' = Some([item |-> idx, graph |-> JobGraph])
  /\ \E ans \in SubmitAnswers :
       /\ submissions' = Append(submissions, [item |-> idx, answer |-> ans])
       /\ IF IsNone(queue_prompt(ans)) THEN MaskRaise("queue")
          ELSE ImageGoes("m_wait")
  /\ UNCHANGED << waits, pair_uploads >>
  /\ UNCHANGED << pvars, svars, fvars, uvars, dvars, rvars >>
  /\ UNCHANGED << pipeline, loaded, workflow, updated_workflow, graph, graph_copy,
                  mode, n_items, input_filename, mask_filename, bg_filename,
                  style_filename, default_prompt, comfy_name, own_input, own_mask,
                  successful_images, failed_images, processed_images >>

\* Lines 147-154 and 244 / 263-267: _poll_history and _fetch_first_image
\* either yield the image bytes or raise; a result is appended (archive)
\* or returned (single image).
MaskResult ==
  /\ pipeline = "masking" /\ pc = "m_wait"
  /\ waits' = waits \cup {idx}
  /\ \E r \in {"ok", "poll", "fetch"} :
       IF r = "ok"
       THEN /\ processed_images' = processed_images + 1
            /\ error' = error /\ logged_failures' = logged_failures
            /\ IF mode = "archive" THEN NextImage /\ outcome' = outcome
               ELSE pc' = "done" /\ outcome' = "ok" /\ idx' = idx
       ELSE processed_images' = processed_images /\ MaskRaise(r)
  /\ UNCHANGED << submissions, pair_uploads >>
  /\ UNCHANGED << pvars, svars, fvars, uvars, dvars, rvars >>
  /\ UNCHANGED << pipeline, loaded, workflow, updated_workflow, graph, graph_copy,
                  mode, n_items, input_filename, mask_filename, bg_filename,
                  style_filename, default_prompt, comfy_name, prompt, own_input,
                  own_mask, successful_images, failed_images >>

\* Lines 251-258: no processed image raises HTTP 500, otherwise the ZIP is
\* returned.
MaskFinish ==
  /\ pipeline = "masking" /\ pc = "m_loop_end"
  /\ pc' = "done"
  /\ outcome' = IF no_success(processed_images) THEN "raised" ELSE "ok"
  /\ error' = IF no_success(processed_images) THEN "no_success" ELSE error
  /\ UNCHANGED << pvars, svars, fvars, jvars, uvars, dvars, rvars >>
  /\ UNCHANGED << pipeline, loaded, workflow, updated_workflow, graph, graph_copy,
                  mode, n_items, idx, input_filename, mask_filename, bg_filename,
                  style_filename, default_prompt, comfy_name, prompt, own_input,
                  own_mask, successful_images, failed_images, processed_images >>

\* ------------------------------------------- variables a run leaves idle
\* The locals of the item loops before the first item.
IdleLoop ==
  /\ updated_workflow = None /\ graph_copy = None
  /\ idx = 1
  /\ input_filename = None /\ mask_filename = None /\ style_filename = None
  /\ default_prompt = DEFAULT_PROMPT
  /\ comfy_name = None /\ prompt = None
  /\ own_input = None /\ own_mask = None
  /\ successful_images = 0 /\ failed_images = 0 /\ processed_images = 0
  /\ outcome = "running" /\ error = "none"
  /\ matching_pairs = << >> /\ skipped = << >>
  /\ submissions = << >> /\ waits = {} /\ logged_failures = 0 /\ pair_uploads = 0

\* The orchestrators' locals before the first assignment.
IdleLocals ==
  /\ IdleLoop
  /\ bg_filename = None
  /\ required_styles = {} /\ style_file_matches = {}
  /\ style_images = EmptyDict /\ upload_failures = {}

\* No template, prompt data or folder is in play.
IdleInputs ==
  /\ loaded = EmptyDict /\ workflow = EmptyDict /\ graph = EmptyDict
  /\ prompts_data = << >> /\ input_folder = << >> /\ mask_folder = {}

\* No wait for a job is in progress.
IdlePoll ==
  /\ clock = 0 /\ attempt = 0 /\ response = "none" /\ history = None
  /\ loop_exit = "none" /\ node = None /\ result = "idle"
  /\ only_misses = TRUE /\ seen_non200 = FALSE

\* No upload call is in progress.
IdleUpload ==
  /\ path_exists = TRUE /\ upload_requests = 0 /\ warnings = << >> /\ slept = 0
  /\ last_err = None /\ uploaded = None /\ raised = None

\* No request handler is in play.
IdleHandler ==
  /\ h_pc = "none" /\ required_files = {} /\ temp_dir = None /\ dirs = {}
  /\ answer = None /\ processing_tasks = EmptyDict /\ query_answer = None

\* No style is being matched, no unique name has been sent.
IdleStyle == style_folder = None /\ matched_files = EmptyDict
IdleNames == now = 0 /\ sent_names = << >>

\* No request is being served.
IdleServer ==
  /\ endpoint = EmptyDict /\ r_pc = EmptyDict /\ running = None
  /\ r_dir = EmptyDict /\ r_graph = EmptyDict /\ heap = EmptyDict /\ files = EmptyDict

\* No archive is being masked, no image renamed, no function called.
IdleArchive ==
  /\ a_pc = "none" /\ a_idx = 1 /\ members = << >> /\ zip_images = << >>
  /\ processed_names = << >> /\ zip_entries = None
IdleRename ==
  /\ e_pc = "none" /\ image_files = << >> /\ existing_names = {}
  /\ copied = << >> /\ errors = {}
IdleCall == x_pc = "none" /\ x_args = << >> /\ x_result = None

IdleLater == IdleArchive /\ IdleRename /\ IdleCall

IdleRequest == IdleHandler /\ IdleStyle /\ IdleNames /\ IdleServer /\ IdleLater

\* No image is being fetched.
IdleDownload ==
  /\ images = << >> /\ output_path = None /\ fetches = << >> /\ written = << >>
  /\ downloaded_count = 0

\* --------------------------------------------------- specification: graphs
\* The prompt data of the graph runs: one product naming a style, with and
\* without a text of its own.
GraphPrompts ==
  { << << "p1", d >> >> : d \in { [text |-> "custom prompt", style_image |-> "casual"],
                                  [style_image |-> "casual"] } }

\* A folder of n image files, named 1.png .. n.png.
FolderOf(n) == [i \in 1..n |-> [base |-> i, ext |-> ".png"]]
Range(f) == { f[i] : i \in DOMAIN f }

\* State after the request handler has loaded the template and saved the
\* uploaded folders: workflow.py:98-113 (compositing),
\* mask_service.py:221-235 (masking).
InitGraph ==
  /\ pipeline \in {"compositing", "masking"}
  /\ IF pipeline = "compositing"
     THEN /\ loaded \in CompTemplates
          /\ workflow = loaded /\ graph = EmptyDict
          /\ mode = "batch"
          /\ n_items \in 1..MaxPairs
          /\ prompts_data \in GraphPrompts
          /\ input_folder = FolderOf(n_items)
          /\ mask_folder = Range(FolderOf(n_items))
          /\ pc = "bg_upload"
     ELSE /\ loaded \in MaskTemplates
          /\ graph = loaded /\ workflow = EmptyDict
          /\ mode \in {"archive", "single"}
          /\ n_items \in 1..MaxImages
          /\ mode = "single" => n_items = 1
          /\ prompts_data = << >> /\ input_folder = << >> /\ mask_folder = {}
          /\ pc = "m_start"
  /\ IdleLocals /\ IdlePoll /\ IdleUpload /\ IdleDownload /\ IdleRequest

NextGraph ==
  \/ UploadBackground
  \/ ResolveStyles
  \/ UploadStyles
  \/ MatchPairs
  \/ UploadPair
  \/ UpdateWorkflow
  \/ SubmitWorkflow
  \/ DownloadResult
  \/ FinishBatch
  \/ MaskUpload
  \/ MaskSetInput
  \/ MaskQueue
  \/ MaskResult
  \/ MaskFinish

SpecGraph == InitGraph /\ [][NextGraph]_vars

\* ----------------------------------------------------- claims on graphs
\* The designated nodes of the template that are present without 'inputs'.
MissingInputs == {n \in CompNodes \cap DOMAIN loaded : "inputs" \notin DOMAIN loaded[n]}

\* A pair's job has just been posted and is being awaited.
PairSubmitted == pipeline = "compositing" /\ pc = "download"

\* C1 (as stated): for every pair whose job is submitted, the posted graph has
\* node 454's image equal to the name the engine answered for that pair's own
\* input upload, and node 439's image equal to the name answered for that
\* pair's own mask upload.
C1_OwnNamesInEveryGraph ==
  PairSubmitted =>
    LET g == Val(prompt).graph
    IN /\ Val(prompt).item = idx
       /\ "454" \in DOMAIN g /\ g["454"]["inputs"]["image"] = Val(own_input)
       /\ "439" \in DOMAIN g /\ g["439"]["inputs"]["image"] = Val(own_mask)

\* C1 (amended): for every pair whose job is submitted, each of the nodes 454
\* and 439 that the template contains carries, in the posted graph, the name
\* answered for that pair's own input (454) or own mask (439) upload, never a
\* name of another pair; a node the template lacks is not in the posted graph.
C1_OwnNamesWhereNodePresent ==
  PairSubmitted =>
    LET g == Val(prompt).graph
    IN /\ Val(prompt).item = idx
       /\ "454" \in DOMAIN g <=> "454" \in DOMAIN loaded
       /\ "439" \in DOMAIN g <=> "439" \in DOMAIN loaded
       /\ "454" \in DOMAIN g => g["454"]["inputs"]["image"] = Val(own_input)
       /\ "439" \in DOMAIN g => g["439"]["inputs"]["image"] = Val(own_mask)

\* C1 witness: the second pair of a batch is submitted, after the first pair
\* was counted, with both nodes stamped with its own two distinct names.
C1_Witness ==
  /\ PairSubmitted /\ idx = 2 /\ successful_images + failed_images = 1
  /\ {"454", "439"} \subseteq DOMAIN loaded
  /\ own_input # own_mask
  /\ Val(prompt).graph["454"]["inputs"]["image"] = Val(own_input)

\* C2: the caller's template is unchanged by update_workflow, after any
\* number of calls made for the successive pairs of a batch.
C2_TemplateUnchanged ==
  pipeline = "compositing" => workflow = loaded

\* C2 witness: update_workflow has returned a mutated copy for a second pair
\* and the copy differs from the template.
C2_Witness ==
  /\ pipeline = "compositing" /\ pc = "submit" /\ idx = 2
  /\ Val(updated_workflow) # workflow
  /\ workflow = loaded

\* C3 (as stated): the graph object loaded by process_image is never modified
\* by _process_single_image, in archive mode and in single-image mode.
C3_LoadedGraphNeverModified ==
  pipeline = "masking" => graph = loaded

C5_UpdateNeverNone ==
  pipeline = "compositing" => error # "update"

\* C5 (amended): update_workflow never raises; it returns None exactly when
\* some designated node present in the template has no 'inputs' mapping (the
\* pair is then counted as failed) and a mutated copy otherwise.
C5_NoneIffInputsMissing ==
  pipeline = "compositing" =>
    /\ error = "update" => MissingInputs # {}
    /\ pc \in {"submit", "download"} =>
         /\ MissingInputs = {}
         /\ ~IsNone(updated_workflow)
         /\ \A n \in CompNodes \cap DOMAIN loaded :
              "inputs" \in DOMAIN Val(updated_workflow)[n]

\* C5 witness: update_workflow returned None for a template whose node 439
\* has no 'inputs', and the pair was counted as failed.
C5_Witness ==
  /\ pipeline = "compositing" /\ error = "update" /\ failed_images >= 1
  /\ "439" \in MissingInputs
  /\ workflow = loaded

\* ================================================== the polling loops
\* Program constants.
POLLING_TIMEOUT == 500         \* workflow_service.py:22
POLLING_INTERVAL == 5          \* workflow_service.py:23
POLL_INTERVAL_S == 5           \* mask_service.py:11
POLL_TIMEOUT_S == 120          \* mask_service.py:12
HISTORY_TIMEOUT == 30          \* workflow_service.py:297 (timeout=30)
MASK_HISTORY_TIMEOUT == 60     \* mask_service.py:78 (timeout=60)
OUTPUT_NODE_ID == "455"        \* mask_service.py:10
PREVIEW_NODE_ID == "15"        \* workflow_service.py:320
start_time == 0                \* the clock is read relative to the start of the wait

max_attempts_double == 2 * (POLLING_TIMEOUT \div POLLING_INTERVAL)
max_attempts_short == (POLLING_TIMEOUT \div POLLING_INTERVAL) - 1
max_attempts == POLLING_TIMEOUT \div POLLING_INTERVAL

\* deadline = time.time() + POLL_TIMEOUT_S
deadline == start_time + POLL_TIMEOUT_S

Designated(p) == IF p = "masking" THEN OUTPUT_NODE_ID ELSE PREVIEW_NODE_ID
Timeout(p) == IF p = "masking" THEN POLL_TIMEOUT_S ELSE POLLING_TIMEOUT

\* How long one history request may take: it answers at once, or only when
\* the per-request timeout is reached.
Durations(p) == IF p = "masking" THEN {0, MASK_HISTORY_TIMEOUT} ELSE {0, HISTORY_TIMEOUT}

\* ----------------------------------------------------- engine answers
Img(n) == [filename |-> n, subfolder |-> "", type |-> "output"]

\* An outputs map keeps its order: a sequence of <<node id, node output>>.
OtherIds == {"9", "20"}
OtherOut(n) == { [images |-> << >>], [images |-> << Img(n) >>] }
OtherSeqs ==
  { << >> } \cup
  UNION { { << <<n, o>> >> : o \in OtherOut(n) } : n \in OtherIds } \cup
  UNION { { << <<ab[1], oa>>, <<ab[2], ob>> >> :
              oa \in OtherOut(ab[1]), ob \in OtherOut(ab[2]) } :
            ab \in { x \in OtherIds \X OtherIds : x[1] # x[2] } }
DesignatedOut(p) ==
  { EmptyDict, [text |-> << "t" >>], [images |-> << >>],
    [images |-> << Img(Designated(p)) >>] }
DesignatedSeqs(p) ==
  { << >> } \cup { << <<Designated(p), o>> >> : o \in DesignatedOut(p) }
OutputsOf(p) == { x \o y : x \in OtherSeqs, y \in DesignatedSeqs(p) }

\* The decoded bodies GET /history/{prompt_id} may return: a dict without
\* the job id, or a dict holding it with an outputs map.
Bodies(p) ==
  { EmptyDict, [other |-> [outputs |-> << >>]] } \cup
  { [job |-> [outputs |-> o]] : o \in OutputsOf(p) }

\* What one history request may yield: a raised request error (connection,
\* timeout), a non-200 status, a 200 whose body is not JSON, a decoded body.
Answers(p) ==
  { [kind |-> k, body |-> EmptyDict] : k \in {"exception", "non200", "undecodable"} } \cup
  { [kind |-> "json", body |-> b] : b \in Bodies(p) }

\* ----------------------------------------------------------- resolvers
\* outputs.get(id): Optional
Lookup(outputs, id) ==
  IF \E i \in DOMAIN outputs : outputs[i][1] = id
  THEN Some(outputs[CHOOSE i \in DOMAIN outputs : outputs[i][1] = id][2])
  ELSE None

\* bool(d) of a dict
Truthy(d) == DOMAIN d # {}

\* `'images' in d and d['images']`, `d.get("images")`: a non-empty list
HasImages(d) == "images" \in DOMAIN d /\ d["images"] # << >>

\* the first node output, in map order, with a non-empty images list
FirstWithImages(outputs) ==
  LET I == {i \in DOMAIN outputs : HasImages(outputs[i][2])}
  IN  IF I = {} THEN None
      ELSE Some(outputs[CHOOSE i \in I : \A j \in I : i <= j][2])

\* workflow_service.py:319-334: preview_node = outputs.get("15", {}); the
\* fallback loop runs when it is falsy or has no 'images' key. Yields the
\* node whose images are downloaded, or None where the code returns False.
comp_resolve(outputs) ==
  LET got == Lookup(outputs, PREVIEW_NODE_ID)
      p0  == IF IsNone(got) THEN EmptyDict ELSE Val(got)
      fb  == FirstWithImages(outputs)
      p1  == IF ~Truthy(p0) \/ "images" \notin DOMAIN p0
             THEN (IF IsNone(fb) THEN p0 ELSE Val(fb))
             ELSE p0
  IN  IF ~Truthy(p1) \/ "images" \notin DOMAIN p1 THEN None ELSE Some(p1)

\* mask_service.py:82-89 (and 104-111): node = outputs.get(OUTPUT_NODE_ID);
\* the fallback loop runs when it is None or falsy. Yields the node when it
\* holds a non-empty images list, None otherwise.
mask_resolve(outputs) ==
  LET got == Lookup(outputs, OUTPUT_NODE_ID)
      fb  == FirstWithImages(outputs)
      n1  == IF IsNone(got) \/ ~Truthy(Val(got)) THEN fb ELSE got
  IN  IF ~IsNone(n1) /\ Truthy(Val(n1)) /\ HasImages(Val(n1)) THEN n1 ELSE None

\* ------------------------------------------------------ one poll answer
\* workflow_service.py:296-306: the ways one iteration's try block can end.
\* A RequestException (request error, raise_for_status) is caught and
\* logged; a body that is not JSON raises a RequestException subclass or a
\* ValueError depending on the installed requests version, the latter
\* reaching the outer except (line 384); the job id in the body breaks.
comp_poll_step_fatal(ans) ==
  CASE ans.kind = "exception"   -> {"continue"}
    [] ans.kind = "non200"      -> {"abort"}
    [] ans.kind = "undecodable" -> {"continue", "abort"}
    [] OTHER -> IF PID \in DOMAIN ans.body THEN {"break"} ELSE {"continue"}
comp_poll_step(ans) ==
  CASE ans.kind = "exception"   -> {"continue"}
    [] ans.kind = "non200"      -> {"continue"}
    [] ans.kind = "undecodable" -> {"continue", "abort"}
    [] OTHER -> IF PID \in DOMAIN ans.body THEN {"break"} ELSE {"continue"}

\* mask_service.py:78-96: the request and r.json() are not guarded, so their
\* exceptions leave _poll_history; a non-200 status is logged; a body with
\* the job id and images on the resolved node is returned.
mask_poll_step(ans) ==
  CASE ans.kind = "exception"   -> {"abort"}
    [] ans.kind = "non200"      -> {"continue"}
    [] ans.kind = "undecodable" -> {"abort"}
    [] OTHER -> IF /\ Truthy(ans.body) /\ PID \in DOMAIN ans.body
                   /\ ~IsNone(mask_resolve(ans.body[PID].outputs))
                THEN {"break"} ELSE {"continue"}

\* --------------------------------------------------------------- actions
\* download_processed_image, one loop iteration up to the sleep: the
\* request, the handling of its answer, the elapsed check (lines 295-311);
\* on break the output node is resolved (lines 319-338).
CompPoll ==
  /\ pipeline = "compositing" /\ pc = "poll" /\ attempt < max_attempts
  /\ \E ans \in Answers(pipeline), d \in Durations(pipeline) :
     \E step \in comp_poll_step(ans) :
       /\ clock' = clock + d
       /\ response' = ans.kind
       /\ history' = IF ans.kind = "json" THEN Some(ans.body) ELSE None
       /\ only_misses' = (only_misses /\ ans.kind = "json" /\ PID \notin DOMAIN ans.body)
       /\ seen_non200' = (seen_non200 \/ ans.kind = "non200")
       /\ CASE step = "break" ->
                 LET n == comp_resolve(Get(ans.body[PID], "outputs", << >>))
                 IN /\ loop_exit' = "completed"
                    /\ node' = n
                    /\ IF ~IsNone(n) /\ HasImages(Val(n))
                       THEN pc' = "download" /\ result' = "images"
                       ELSE pc' = "returned" /\ result' = "False"
            [] step = "abort" ->
                 /\ loop_exit' = "exception" /\ node' = node
                 /\ pc' = "returned" /\ result' = "False"
            [] OTHER ->
                 /\ node' = node
                 /\ IF clock' - start_time >= POLLING_TIMEOUT
                    THEN loop_exit' = "timeout" /\ pc' = "returned" /\ result' = "False"
                    ELSE loop_exit' = loop_exit /\ pc' = "sleep" /\ result' = result
  /\ UNCHANGED << attempt >>
  /\ UNCHANGED << pipeline, loaded, workflow, updated_workflow, graph, graph_copy,
                  mode, n_items, idx, input_filename, mask_filename, bg_filename,
                  style_filename, default_prompt, comfy_name, prompt, own_input,
                  own_mask, successful_images, failed_images, processed_images,
                  outcome, error >>
  /\ UNCHANGED << svars, fvars, jvars, uvars, dvars, rvars >>

\* time.sleep(POLLING_INTERVAL) and the loop header (lines 313, 295,
\* 314-316): the next attempt, or the for-else when the range is used up.
CompSleep ==
  /\ pipeline = "compositing" /\ pc = "sleep"
  /\ clock' = clock + POLLING_INTERVAL
  /\ attempt' = attempt + 1
  /\ response' = "none" /\ history' = None
  /\ IF attempt + 1 < max_attempts
     THEN pc' = "poll" /\ loop_exit' = loop_exit /\ result' = result
     ELSE pc' = "returned" /\ loop_exit' = "exhausted" /\ result' = "False"
  /\ UNCHANGED << node, only_misses, seen_non200 >>
  /\ UNCHANGED << pipeline, loaded, workflow, updated_workflow, graph, graph_copy,
                  mode, n_items, idx, input_filename, mask_filename, bg_filename,
                  style_filename, default_prompt, comfy_name, prompt, own_input,
                  own_mask, successful_images, failed_images, processed_images,
                  outcome, error >>
  /\ UNCHANGED << svars, fvars, jvars, uvars, dvars, rvars >>

\* _poll_history, one loop iteration up to the sleep (lines 74-94).
MaskPoll ==
  /\ pipeline = "masking" /\ pc = "poll"
  /\ \E ans \in Answers(pipeline), d \in Durations(pipeline) :
     \E step \in mask_poll_step(ans) :
       /\ clock' = clock + d
       /\ attempt' = attempt + 1
       /\ response' = ans.kind
       /\ history' = IF ans.kind = "json" THEN Some(ans.body) ELSE None
       /\ only_misses' = (only_misses /\ ans.kind = "json" /\ PID \notin DOMAIN ans.body)
       /\ seen_non200' = (seen_non200 \/ ans.kind = "non200")
       /\ CASE step = "break" ->
                 /\ loop_exit' = "completed"
                 /\ node' = mask_resolve(Get(ans.body[PID], "outputs", << >>))
                 /\ pc' = "fetch" /\ result' = "history"
            [] step = "abort" ->
                 /\ loop_exit' = "exception" /\ node' = node
                 /\ pc' = "returned" /\ result' = "raised"
            [] OTHER ->
                 /\ loop_exit' = loop_exit /\ node' = node
                 /\ pc' = "sleep" /\ result' = result
  /\ UNCHANGED << pipeline, loaded, workflow, updated_workflow, graph, graph_copy,
                  mode, n_items, idx, input_filename, mask_filename, bg_filename,
                  style_filename, default_prompt, comfy_name, prompt, own_input,
                  own_mask, successful_images, failed_images, processed_images,
                  outcome, error >>
  /\ UNCHANGED << svars, fvars, jvars, uvars, dvars, rvars >>

\* time.sleep(POLL_INTERVAL_S) and the loop condition (lines 96, 73,
\* 98-100): poll again while time.time() < deadline, else HTTP 504.
MaskSleep ==
  /\ pipeline = "masking" /\ pc = "sleep"
  /\ clock' = clock + POLL_INTERVAL_S
  /\ response' = "none" /\ history' = None
  /\ IF clock' < deadline
     THEN pc' = "poll" /\ loop_exit' = loop_exit /\ result' = result
     ELSE pc' = "returned" /\ loop_exit' = "timeout" /\ result' = "504"
  /\ UNCHANGED << attempt, node, only_misses, seen_non200 >>
  /\ UNCHANGED << pipeline, loaded, workflow, updated_workflow, graph, graph_copy,
                  mode, n_items, idx, input_filename, mask_filename, bg_filename,
                  style_filename, default_prompt, comfy_name, prompt, own_input,
                  own_mask, successful_images, failed_images, processed_images,
                  outcome, error >>
  /\ UNCHANGED << svars, fvars, jvars, uvars, dvars, rvars >>

\* State when the wait for a submitted job begins (workflow_service.py:292,
\* mask_service.py:69-71).
InitPoll ==
  /\ pipeline \in {"compositing", "masking"}
  /\ pc = "poll"
  /\ mode = "wait" /\ n_items = 1
  /\ IdleInputs /\ IdleLocals /\ IdleUpload /\ IdleDownload /\ IdleRequest
  /\ clock = start_time /\ attempt = 0 /\ response = "none" /\ history = None
  /\ loop_exit = "none" /\ node = None /\ result = "waiting"
  /\ only_misses = TRUE /\ seen_non200 = FALSE

NextPoll ==
  \/ CompPoll
  \/ CompSleep
  \/ MaskPoll
  \/ MaskSleep

SpecPoll == InitPoll /\ [][NextPoll]_vars

\* ---------------------------------------------------- claims on polling
\* This iteration's answer is a decoded body that holds the job id.
HasKey == response = "json" /\ PID \in DOMAIN Val(history)
Outs == Val(history)[PID].outputs
Elapsed == clock - start_time
DeadlinePassed == loop_exit \in {"timeout", "exhausted"} /\ Elapsed >= Timeout(pipeline)
Succeeded == loop_exit = "completed" /\ result \in {"images", "history"}
\* some node of the entry holds a non-empty images list
SomeImages == ~IsNone(FirstWithImages(Outs))
DesignatedAbsent == IsNone(Lookup(Outs, Designated(pipeline)))
DesignatedNode == Val(Lookup(Outs, Designated(pipeline)))
\* The entry holds the job's images: on the designated node, or, that node
\* being absent or an empty descriptor, on another node.
JobImages ==
  IF DesignatedAbsent THEN SomeImages
  ELSE HasImages(DesignatedNode) \/ (~Truthy(DesignatedNode) /\ SomeImages)

\* C6: the poller never leaves the loop as completed on an entry whose
\* outputs hold no images, and keeps polling such a job until images appear
\* or the deadline passes.
C6_CompletedOnlyWithImages ==
  /\ loop_exit = "completed" => (HasKey /\ SomeImages)
  /\ (HasKey /\ ~SomeImages) => (loop_exit = "none" /\ pc = "sleep") \/ DeadlinePassed

\* C7: polls that miss the job id never end the wait before the full
\* timeout: a wait that saw only such answers ends only once the timeout has
\* elapsed, no wait is reported timed out earlier, and an answer holding the
\* job id with the job's images still yields success.
C7_MissingKeyNeverEndsEarly ==
  /\ loop_exit \in {"timeout", "exhausted"} => Elapsed >= Timeout(pipeline)
  /\ (only_misses /\ loop_exit # "none") => DeadlinePassed
  /\ (response = "json" /\ ~HasKey) => (loop_exit = "none" /\ pc = "sleep") \/ DeadlinePassed
  /\ (HasKey /\ JobImages) => Succeeded

\* C7 witness: every poll of the wait missed the job id and the wait ended
\* at the timeout.
C7_Witness ==
  /\ only_misses /\ attempt >= 2 /\ loop_exit \in {"timeout", "exhausted"}
  /\ Elapsed >= Timeout(pipeline)

\* C8: a non-200 history answer is not fatal: the poller goes to its sleep
\* and polls again unless the deadline has passed, and after a non-200 an
\* answer holding the job's images still yields success.
C8_Non200NotFatal ==
  /\ response = "non200" => (loop_exit = "none" /\ pc = "sleep") \/ DeadlinePassed
  /\ (seen_non200 /\ loop_exit # "none" /\ response = "none") => DeadlinePassed
  /\ (seen_non200 /\ HasKey /\ JobImages) => Succeeded

\* C8 witness: a wait that met a non-200 answer ended in success on a later
\* poll.
C8_Witness ==
  /\ seen_non200 /\ attempt >= 1 /\ HasKey /\ Succeeded
  /\ ~IsNone(node) /\ HasImages(Val(node))

\* C9: when the designated output node is absent, or present with an empty
\* images list, and another node has images, the first such node in map
\* order is resolved and the job succeeds with its images.
C9_FallbackToFirstNodeWithImages ==
  (/\ HasKey /\ SomeImages
   /\ \/ DesignatedAbsent
      \/ ("images" \in DOMAIN DesignatedNode /\ DesignatedNode["images"] = << >>))
  => (Succeeded /\ node = FirstWithImages(Outs))

\* C10: the wait for a submitted job ends only on success or on timeout
\* expiry.
C10_EndsOnlyOnSuccessOrTimeout ==
  loop_exit # "none" => (Succeeded \/ DeadlinePassed)

\* ------------------------------------------------------------- uploads
\* upload_image_with_retry (pipeline "compositing") and _upload_to_comfy
\* (pipeline "masking") against an engine that answers each upload request
\* as it likes.
MAX_RETRIES == 3          \* workflow_service.py:21
RETRY_DELAY == 2          \* workflow_service.py:24
MASK_MAX_RETRIES == 3     \* mask_service.py:13
MASK_RETRY_DELAY == 2     \* mask_service.py:52

LocalName == "local.png"              \* os.path.basename(image_path)
Stamped == "1700000000000_local.png"  \* f"{int(time.time()*1000)}_{original_name}"

\* Answers to POST /upload/image: a 2xx status with a JSON object holding
\* 'name', a 2xx with a JSON object without it, a 2xx whose body is not a
\* JSON object, a non-2xx status, no answer within the timeout.
UploadAnswers ==
  { [kind |-> "named", name |-> r] : r \in RemoteNames } \cup
  { [kind |-> k] : k \in {"unnamed", "bad_json", "non2xx", "timeout"} }

Retries(p) == IF p = "compositing" THEN MAX_RETRIES ELSE MASK_MAX_RETRIES

\* The seconds slept between two attempts (time.sleep(RETRY_DELAY),
\* time.sleep(2)).
retry_delay_polling(p) == POLLING_INTERVAL
retry_delay(p) == IF p = "compositing" THEN RETRY_DELAY ELSE MASK_RETRY_DELAY

\* `if attempt < MAX_RETRIES - 1`: a failed attempt is followed by a sleep.
sleeps_after_every_failure(p, a) == TRUE
sleeps_after(p, a) == a < Retries(p) - 1

\* `if not os.path.exists(image_path)`
path_check_skipped(exists) == FALSE
path_missing(exists) == ~exists

\* The body of the try of upload_image_with_retry on an answer: the name
\* returned, or the exception raised by raise_for_status, response.json()
\* or result.get.
upload_try(ans) ==
  CASE ans.kind = "named" -> [ok |-> TRUE, name |-> ans.name]
    [] ans.kind = "unnamed" -> [ok |-> TRUE, name |-> LocalName]
    [] OTHER -> [ok |-> FALSE, err |-> ans.kind]

\* The body of the try of _upload_to_comfy: every 2xx answer returns the
\* stamped name, the body is not read.
comfy_try(ans) ==
  IF ans.kind \in {"non2xx", "timeout"} THEN [ok |-> FALSE, err |-> ans.kind]
  ELSE [ok |-> TRUE, name |-> Stamped]

UploadFrame ==
  /\ UNCHANGED << gvars_but_pc, svars, fvars, jvars, dvars, rvars >>
  /\ UNCHANGED << clock, response, history, loop_exit, node, result, only_misses,
                  seen_non200 >>

\* Lines 123-125: a missing local file returns None at once.
UploadCheckPath ==
  /\ pipeline = "compositing" /\ pc = "u_check"
  /\ IF path_missing(path_exists) THEN pc' = "u_returned" ELSE pc' = "u_attempt"
  /\ UNCHANGED << attempt, uvars, rvars >>
  /\ UploadFrame

\* Lines 127-154, one iteration of the loop up to the sleep: the file (which
\* exists) is read and posted; the answer returns the name, or the exception
\* is logged and the loop sleeps, or, on the last attempt, returns None.
UploadAttempt ==
  /\ pipeline = "compositing" /\ pc = "u_attempt" /\ attempt < MAX_RETRIES
  /\ upload_requests' = upload_requests + 1
  /\ \E ans \in UploadAnswers :
       LET r == upload_try(ans)
       IN IF r.ok
          THEN /\ uploaded' = Some(r.name) /\ pc' = "u_returned"
               /\ warnings' = warnings
          ELSE /\ warnings' = Append(warnings, [attempt |-> attempt + 1, err |-> r.err])
               /\ uploaded' = None
               /\ pc' = IF sleeps_after(pipeline, attempt) THEN "u_sleep"
                        ELSE "u_returned"
  /\ UNCHANGED << attempt, path_exists, slept, last_err, raised >>
  /\ UploadFrame

\* Line 151 and the loop header: time.sleep(RETRY_DELAY), then the next
\* attempt; line 156 when the range is used up.
UploadSleep ==
  /\ pipeline = "compositing" /\ pc = "u_sleep"
  /\ slept' = slept + retry_delay(pipeline)
  /\ attempt' = attempt + 1
  /\ pc' = IF attempt + 1 < MAX_RETRIES THEN "u_attempt" ELSE "u_returned"
  /\ UNCHANGED << path_exists, upload_requests, warnings, last_err, uploaded, raised >>
  /\ UploadFrame

\* _upload_to_comfy lines 35-52, one iteration of the loop up to the sleep;
\* after the last failed attempt lines 53-54 raise HTTP 502 with last_err.
ComfyAttempt ==
  /\ pipeline = "masking" /\ pc = "u_attempt" /\ attempt < MASK_MAX_RETRIES
  /\ upload_requests' = upload_requests + 1
  /\ \E ans \in UploadAnswers :
       LET r == comfy_try(ans)
       IN IF r.ok
          THEN /\ uploaded' = Some(r.name) /\ pc' = "u_returned"
               /\ UNCHANGED << warnings, last_err, raised >>
          ELSE /\ last_err' = Some(r.err)
               /\ warnings' = Append(warnings, [attempt |-> attempt + 1, err |-> r.err])
               /\ uploaded' = None
               /\ IF sleeps_after(pipeline, attempt)
                  THEN pc' = "u_sleep" /\ raised' = raised
                  ELSE /\ pc' = "u_returned"
                       /\ raised' = Some([status |-> 502, detail |-> r.err])
  /\ UNCHANGED << attempt, path_exists, slept >>
  /\ UploadFrame

\* Line 52 and the loop header: time.sleep(2), then the next attempt, or
\* lines 53-54 when the range is used up.
ComfySleep ==
  /\ pipeline = "masking" /\ pc = "u_sleep"
  /\ slept' = slept + retry_delay(pipeline)
  /\ attempt' = attempt + 1
  /\ IF attempt + 1 < MASK_MAX_RETRIES
     THEN pc' = "u_attempt" /\ raised' = raised
     ELSE pc' = "u_returned" /\ raised' = Some([status |-> 502, detail |-> Val(last_err)])
  /\ UNCHANGED << path_exists, upload_requests, warnings, last_err, uploaded >>
  /\ UploadFrame

\* State at the call: the local path of upload_image_with_retry exists or
\* not; _upload_to_comfy is handed the bytes.
InitUpload ==
  /\ pipeline \in {"compositing", "masking"}
  /\ pc = IF pipeline = "compositing" THEN "u_check" ELSE "u_attempt"
  /\ mode = "upload" /\ n_items = 1
  /\ path_exists \in BOOLEAN
  /\ pipeline = "masking" => path_exists
  /\ upload_requests = 0 /\ warnings = << >> /\ slept = 0
  /\ last_err = None /\ uploaded = None /\ raised = None
  /\ IdleInputs /\ IdleLocals /\ IdlePoll /\ IdleDownload /\ IdleRequest

NextUpload ==
  \/ UploadCheckPath
  \/ UploadAttempt
  \/ UploadSleep
  \/ ComfyAttempt
  \/ ComfySleep

SpecUpload == InitUpload /\ [][NextUpload]_vars

\* ----------------------------------------------------- claims on uploads
UploadReturned == pc = "u_returned"
UploadSucceeded == UploadReturned /\ ~IsNone(uploaded)
\* every attempt of the call failed
UploadExhausted == UploadReturned /\ path_exists /\ IsNone(uploaded)

\* C11: an upload that first succeeds on attempt k (k <= 3) returns the
\* remote name after exactly k upload requests, k-1 logged warnings and k-1
\* delays of 2 s each; so one that fails twice and then succeeds makes 3
\* requests, logs 2 warnings and sleeps 2 x 2 s.
C11_SucceedsOnAttemptK ==
  UploadSucceeded =>
    LET k == Len(warnings) + 1
    IN /\ k <= 3 /\ attempt + 1 = k
       /\ upload_requests = k
       /\ slept = 2 * (k - 1)
       /\ IsNone(raised)
       /\ \A i \in DOMAIN warnings : warnings[i].attempt = i

\* C11 witness: the first two attempts failed and the third succeeded.
C11_Witness ==
  /\ UploadSucceeded /\ Len(warnings) = 2 /\ upload_requests = 3 /\ slept = 4
  /\ pipeline = "compositing"

\* C12: an upload whose every attempt fails makes exactly 3 requests and
\* never a fourth, sleeps only between attempts (2 sleeps, none after the
\* last attempt) and then fails with the last error: upload_image_with_retry
\* returns None, _upload_to_comfy raises HTTP 502 whose detail is the last
\* attempt's error.
C12_ExhaustedRetriesFail ==
  /\ upload_requests <= 3
  /\ pc = "u_sleep" => attempt + 1 < 3
  /\ UploadExhausted =>
       /\ upload_requests = 3 /\ Len(warnings) = 3 /\ slept = 2 * 2
       /\ IF pipeline = "compositing" THEN IsNone(raised)
          ELSE raised = Some([status |-> 502, detail |-> warnings[3].err])

\* C12 witness: _upload_to_comfy gave up after three failed attempts whose
\* last error differs from the earlier ones.
C12_Witness ==
  /\ UploadExhausted /\ pipeline = "masking" /\ upload_requests = 3
  /\ warnings[3].err # warnings[2].err /\ ~IsNone(raised)

\* C13: upload_image_with_retry on a local path that does not exist fails
\* immediately: no upload request, no retry, no delay.
C13_MissingPathFailsAtOnce ==
  (pipeline = "compositing" /\ ~path_exists) =>
     /\ upload_requests = 0 /\ slept = 0 /\ attempt = 0 /\ warnings = << >>
     /\ pc \in {"u_check", "u_returned"}
     /\ IsNone(uploaded)

\* C13 witness: the call returned None for a missing path.
C13_Witness ==
  /\ pipeline = "compositing" /\ ~path_exists /\ UploadReturned /\ IsNone(uploaded)

\* ------------------------------------------------- claims on the batches
\* The POST /prompt calls made for item i.
PostsOf(i) == { k \in DOMAIN submissions : submissions[k].item = i }
Refused(k) == submissions[k].answer \in {"non2xx", "no_id"}
\* item i is still being submitted or waited for
InFlight(i) == idx = i /\ pc \in {"submit", "download", "m_queue", "m_wait"}

\* C14: a job is posted exactly once: no item has more than one POST /prompt,
\* an item whose post was answered with a non-success status or without a
\* prompt_id fails at once (it is not posted again and is never waited for:
\* no history poll, no image fetch), and every item waited for was posted
\* once and accepted.
C14_OneSubmissionNoRetry ==
  \A i \in 1..n_items :
    /\ Cardinality(PostsOf(i)) <= 1
    /\ \A k \in PostsOf(i) : Refused(k) => (i \notin waits /\ ~InFlight(i))
    /\ i \in waits => (Cardinality(PostsOf(i)) = 1 /\ \A k \in PostsOf(i) : ~Refused(k))

\* C14 witness: the first item's job was refused for want of a prompt_id and
\* never waited for, the second item's job was accepted and waited for.
C14_Witness ==
  /\ Len(submissions) = 2 /\ submissions[1] = [item |-> 1, answer |-> "no_id"]
  /\ submissions[2].item = 2 /\ waits = {2}

\* The items of the batch that succeeded.
Successes == IF pipeline = "compositing" THEN successful_images ELSE processed_images
BatchEnded == pc = "done" /\ mode \in {"batch", "archive"}

\* C17: a batch (pairs of the background-replace batch, images of a masking
\* archive) in which no item succeeded ends in an exception, which the
\* handler answers as an error; a batch of N > 1 items in which exactly one
\* succeeded ends in success, each of the other N-1 items being logged as
\* failed (and counted in failed_images by the pair loop).
C17_ZeroFailsOneSucceeds ==
  BatchEnded =>
    /\ Successes = 0 => outcome = "raised"
    /\ (n_items > 1 /\ Successes = 1) =>
         /\ outcome = "ok"
         /\ logged_failures = n_items - 1
         /\ pipeline = "compositing" => failed_images = n_items - 1

\* C17 witness: a masking archive of several images ended in success with
\* one image processed and every other image logged as failed.
C17_Witness ==
  /\ BatchEnded /\ pipeline = "masking" /\ n_items > 1
  /\ processed_images = 1 /\ outcome = "ok" /\ logged_failures = n_items - 1

\* ---------------------------------------------- specification: pairing
\* process_images_api at step 5, over the folders a request may upload.
MaxInputs == 5            \* files in the input folder
MaxMasks == 3             \* files in the mask folder

\* The files an input folder is drawn from, in listing order, and the
\* files a mask folder is drawn from. The order of a listing does not enter
\* the pairing of an input, so listings are drawn in one order.
InputNames ==
  << [base |-> "a", ext |-> ".png"], [base |-> "b", ext |-> ".png"],
     [base |-> "c", ext |-> ".png"], [base |-> "d", ext |-> ".png"],
     [base |-> "e", ext |-> ".png"], [base |-> "a", ext |-> ".JPG"],
     [base |-> "notes", ext |-> ".txt"] >>
MaskNames ==
  { [base |-> b, ext |-> e] : b \in {"a", "b", "c"}, e \in {".jpg", ".png", ".jpeg"} }
  \cup { [base |-> "d", ext |-> ".PNG"] }

\* The elements of seq at the positions in S, in order.
RECURSIVE Pick(_, _)
Pick(seq, S) ==
  IF seq = << >> THEN << >>
  ELSE Pick(SubSeq(seq, 1, Len(seq) - 1), S)
       \o (IF Len(seq) \in S THEN << seq[Len(seq)] >> ELSE << >>)

\* State when step 5 begins: the background and the styles are uploaded.
InitPair ==
  /\ pipeline = "compositing" /\ pc = "pairing" /\ mode = "batch" /\ n_items = 0
  /\ loaded = EmptyDict /\ workflow = EmptyDict /\ graph = EmptyDict
  /\ prompts_data = << << "p1", [style_image |-> "casual"] >> >>
  /\ bg_filename \in {Some(x) : x \in BgNames}
  /\ required_styles = {"casual"} /\ style_file_matches = {"casual"}
  /\ style_images \in [{"casual"} -> StyleNames] /\ upload_failures = {}
  /\ \E S \in SUBSET (1..Len(InputNames)) :
       Cardinality(S) <= MaxInputs /\ input_folder = Pick(InputNames, S)
  /\ mask_folder \in { M \in SUBSET MaskNames : Cardinality(M) <= MaxMasks }
  /\ IdleLoop /\ IdlePoll /\ IdleUpload /\ IdleDownload /\ IdleRequest

SpecPair == InitPair /\ [][MatchPairs]_vars

\* ----------------------------------------------------- claims on pairing
ListedInputs == listed_images(input_folder)
Paired == pc # "pairing"
PairsOf(f) == { k \in DOMAIN matching_pairs : matching_pairs[k][1] = f }
SkipsOf(f) == { k \in DOMAIN skipped : skipped[k] = f }
\* the mask folder holds an image file with the base name of f
HasSameBaseMask(f) == \E m \in mask_folder : is_image(m) /\ m.base = f.base
\* the mask folder holds {base}.jpg or {base}.png
HasJpgOrPngMask(f) ==
  \/ [base |-> f.base, ext |-> ".jpg"] \in mask_folder
  \/ [base |-> f.base, ext |-> ".png"] \in mask_folder

C19_UnmatchedNeverFatal ==
  skipped # << >> => ~(outcome = "raised" /\ error = "no_pairs")

\* C19 (amended): unmatched inputs are skipped and logged and the batch
\* goes on to its pairs as long as one input was paired; when no input was
\* paired, process_images_api raises "No matching image-mask pairs found".
C19_UnmatchedFatalOnlyWithoutPairs ==
  Paired =>
    /\ Len(matching_pairs) + Len(skipped) = Len(ListedInputs)
    /\ matching_pairs # << >> =>
         /\ outcome = "running" /\ pc = "pair_upload"
         /\ n_items = Len(matching_pairs)
    /\ matching_pairs = << >> => (outcome = "raised" /\ error = "no_pairs")

\* C19 witness: inputs without a mask were skipped and the batch went on
\* with the inputs that were paired.
C19_Witness ==
  /\ Paired /\ Len(skipped) >= 2 /\ Len(matching_pairs) >= 1
  /\ outcome = "running" /\ pc = "pair_upload"

\* ---------------------------------------- specification: prerequisites
\* process_images_api on a complete template, over the prompt data a
\* request may carry.
FullTemplate ==
  [n \in CompNodes \cup {OtherNode} |->
     IF n = OtherNode THEN Sampler
     ELSE IF n = "448" THEN FullString ELSE FullLoadImage]

InitBatch ==
  /\ pipeline = "compositing" /\ pc = "bg_upload" /\ mode = "batch"
  /\ loaded = FullTemplate /\ workflow = loaded /\ graph = EmptyDict
  /\ n_items \in 1..MaxPairs
  /\ prompts_data \in PromptsData
  /\ input_folder = FolderOf(n_items)
  /\ mask_folder = Range(FolderOf(n_items))
  /\ IdleLocals /\ IdlePoll /\ IdleUpload /\ IdleDownload /\ IdleRequest

NextBatch ==
  \/ UploadBackground
  \/ ResolveStyles
  \/ UploadStyles
  \/ MatchPairs
  \/ UploadPair
  \/ UpdateWorkflow
  \/ SubmitWorkflow
  \/ DownloadResult
  \/ FinishBatch

SpecBatch == InitBatch /\ [][NextBatch]_vars

\* ----------------------------------------------- claims on prerequisites
\* The styles the prompt data requires.
RequiredByPrompts == get_required_style_images(prompts_data)
\* the background upload succeeded, every required style resolved to a
\* file and every required style upload succeeded
PrerequisitesMet ==
  /\ ~IsNone(bg_filename)
  /\ required_styles = RequiredByPrompts
  /\ style_file_matches = required_styles
  /\ DOMAIN style_images = required_styles
  /\ upload_failures = {}
\* no pair has been touched
NoPairWork ==
  /\ pair_uploads = 0 /\ submissions = << >> /\ waits = {}
  /\ IsNone(own_input) /\ IsNone(own_mask) /\ IsNone(prompt)
  /\ successful_images = 0 /\ failed_images = 0
PrerequisiteErrors == {"bg_upload", "no_styles", "missing_styles", "style_upload"}

\* C20: no input image or mask is uploaded and no job is submitted unless
\* the background upload succeeded, every style required by the prompt data
\* resolved to a file and every required style upload succeeded; when one
\* of these fails the batch ends in an exception with no pair processed.
C20_PrerequisitesBeforeAnyPair ==
  /\ ~NoPairWork => PrerequisitesMet
  /\ pc \in {"pair_upload", "update", "submit", "download", "loop_end"} => PrerequisitesMet
  /\ (pc \notin {"bg_upload"} /\ IsNone(bg_filename)) =>
        (outcome = "raised" /\ error = "bg_upload")
  /\ (/\ pc \notin {"bg_upload", "styles"} /\ ~IsNone(bg_filename)
      /\ style_file_matches # RequiredByPrompts) =>
        (outcome = "raised" /\ error = "missing_styles")
  /\ upload_failures # {} => (outcome = "raised" /\ error = "style_upload")
  /\ (outcome = "raised" /\ error \in PrerequisiteErrors) => (NoPairWork /\ pc = "done")

\* C20 witness: of two required styles one was uploaded and the other's
\* upload failed; the batch was aborted before any pair.
C20_Witness ==
  /\ Cardinality(required_styles) = 2 /\ Cardinality(upload_failures) = 1
  /\ DOMAIN style_images # {}
  /\ outcome = "raised" /\ error = "style_upload" /\ NoPairWork

\* ------------------------------------------- fetching the output images
\* download_processed_image from line 337 on (pipeline "compositing") and
\* _fetch_first_image from line 115 on (pipeline "masking"), against an
\* engine that answers each GET /view as it likes.
MaxListed == 5            \* images listed on the resolved node
VARIANT_CAP == 4          \* workflow_service.py:346

Min(a, b) == IF a < b THEN a ELSE b

\* A path as os.path splits it: directory, base name (a sequence of
\* pieces) and extension.
OutputPaths ==
  { [dir |-> d, name |-> << "processed_a" >>, ext |-> e] :
      d \in {"out/processed_images", ""}, e \in {".png", ".jpg"} }

\* images[:4]
capped_none(imgs) == imgs
capped(imgs) == SubSeq(imgs, 1, Min(Len(imgs), VARIANT_CAP))

\* Lines 341-354: the file the image at 0-based index i is written to.
variant_path(path, i) ==
  LET base_name == path.name
      base_dir == path.dir
      ext == path.ext
  IN IF i = 0 THEN path
     ELSE [dir |-> base_dir, name |-> base_name \o << "_variant_", i + 1 >>, ext |-> ext]

\* What a failed variant does to the loop (lines 373-375).
variant_failure_returns == "return"
variant_failure == "continue"

\* What may happen to one variant: fetched and written, GET /view failing
\* (status, timeout), the write failing.
FetchOutcomes == {"ok", "http_error", "write_error"}

DownloadFrame ==
  /\ UNCHANGED << gvars_but_pc, svars, fvars, jvars, rvars >>
  /\ UNCHANGED << clock, attempt, response, history, loop_exit, node, only_misses,
                  seen_non200 >>
  /\ UNCHANGED << path_exists, upload_requests, slept, last_err, uploaded, raised >>

\* Lines 346-375, one iteration of the loop; the index is the number of
\* requests made so far, every iteration making one.
FetchVariant ==
  /\ pipeline = "compositing" /\ pc = "download"
  /\ Len(fetches) < Len(capped(images))
  /\ LET i == Len(fetches)
         image_info == capped(images)[i + 1]
         vp == variant_path(output_path, i)
     IN /\ fetches' = Append(fetches, [entry |-> image_info, path |-> vp])
        /\ \E out \in FetchOutcomes :
             IF out = "ok"
             THEN /\ written' = Append(written, [entry |-> image_info, path |-> vp])
                  /\ downloaded_count' = downloaded_count + 1
                  /\ UNCHANGED << warnings, pc, result >>
             ELSE /\ warnings' = Append(warnings, [attempt |-> i + 1, err |-> out])
                  /\ UNCHANGED << written, downloaded_count >>
                  /\ IF variant_failure = "continue" THEN UNCHANGED << pc, result >>
                     ELSE pc' = "returned" /\ result' = "False"
  /\ UNCHANGED << images, output_path >>
  /\ DownloadFrame

\* Lines 377-382: the loop is over; True when a variant was written.
FinishDownload ==
  /\ pipeline = "compositing" /\ pc = "download"
  /\ Len(fetches) = Len(capped(images))
  /\ pc' = "returned"
  /\ result' = IF downloaded_count > 0 THEN "True" ELSE "False"
  /\ UNCHANGED << dvars, warnings, rvars >>
  /\ DownloadFrame

\* _fetch_first_image lines 111-127: no image raises HTTP 500; else the
\* first image of the node is requested and its bytes returned, a failing
\* request raising.
MaskFetch ==
  /\ pipeline = "masking" /\ pc = "fetch"
  /\ pc' = "returned"
  /\ IF images = << >>
     THEN result' = "raised" /\ fetches' = fetches /\ downloaded_count' = downloaded_count
     ELSE /\ fetches' = Append(fetches, [entry |-> images[1]])
          /\ \E out \in {"ok", "http_error"} :
               IF out = "ok" THEN result' = "bytes" /\ downloaded_count' = 1
               ELSE result' = "raised" /\ downloaded_count' = downloaded_count
  /\ UNCHANGED << images, output_path, written, warnings >>
  /\ DownloadFrame

\* State when the output node has been resolved: its images list (line 337,
\* line 111) and, for download_processed_image, the destination path.
InitDownload ==
  /\ pipeline \in {"compositing", "masking"}
  /\ pc = IF pipeline = "compositing" THEN "download" ELSE "fetch"
  /\ mode = "fetch" /\ n_items = 1
  /\ \E n \in 0..MaxListed : images = [k \in 1..n |-> Img(k)]
  /\ output_path \in OutputPaths
  /\ fetches = << >> /\ written = << >> /\ downloaded_count = 0
  /\ IdleInputs /\ IdleLocals /\ IdlePoll /\ IdleUpload /\ IdleRequest

NextDownload ==
  \/ FetchVariant
  \/ FinishDownload
  \/ MaskFetch

SpecDownload == InitDownload /\ [][NextDownload]_vars

\* ---------------------------------------------------- claims on fetching
Returned == pc = "returned"

\* C15: download_processed_image requests at most 4 images of the node and
\* never a fifth: the requests are those of the first min(n, 4) images in
\* list order, exactly min(n, 4) of them once the call has returned; the
\* first image is written to the output path itself and the k-th (k = 2..4)
\* to {base}_variant_{k}{ext} in the same directory. The masking pipeline
\* requests exactly the first image of its node.
C15_AtMostFourVariants ==
  IF pipeline = "compositing"
  THEN /\ Len(fetches) <= 4
       /\ Returned => Len(fetches) = Min(Len(images), 4)
       /\ \A k \in DOMAIN fetches :
            /\ fetches[k].entry = images[k]
            /\ fetches[k].path =
                 IF k = 1 THEN output_path
                 ELSE [dir |-> output_path.dir,
                       name |-> output_path.name \o << "_variant_", k >>,
                       ext |-> output_path.ext]
       /\ \A j \in DOMAIN written : \E k \in DOMAIN fetches : written[j] = fetches[k]
  ELSE /\ Len(fetches) <= 1
       /\ (Returned /\ images # << >>) => fetches = << [entry |-> images[1]] >>

\* C15 witness: five images were listed and four were fetched and written.
C15_Witness ==
  /\ pipeline = "compositing" /\ Returned /\ Len(images) = 5
  /\ Len(fetches) = 4 /\ Len(written) = 4

\* C16: a variant whose fetch or write fails is logged and skipped, the
\* remaining variants up to the cap are still attempted; the call returns
\* False only when no variant was written and True when at least one was,
\* whatever its index.
C16_FailsOnlyWithZeroVariants ==
  pipeline = "compositing" =>
    /\ downloaded_count = Len(written)
    /\ Len(written) + Len(warnings) = Len(fetches)
    /\ Returned =>
         /\ Len(fetches) = Min(Len(images), 4)
         /\ result = "True" <=> Len(written) > 0
         /\ result = "False" <=> Len(written) = 0

\* C16 witness: the first two variants failed (one on the fetch, one on the
\* write), the third was written, the fourth failed, and the call returned
\* True.
C16_Witness ==
  /\ pipeline = "compositing" /\ Returned /\ result = "True"
  /\ Len(fetches) = 4 /\ Len(warnings) = 3
  /\ warnings[1].err = "http_error" /\ warnings[2].err = "write_error"
  /\ written = << fetches[3] >>

\* ------------------------------------------- claims on the masking loop
\* The stages of _process_single_image an exception can come from.
MaskStages == {"upload", "input_node", "queue", "poll", "fetch"}
\* The images of the archive that _process_single_image was called for and
\* has left.
ImagesLeft == IF pc \in {"m_loop_end", "done"} THEN n_items ELSE idx - 1

\* C21: in archive mode an exception of any stage of one image (upload, input
\* node, queue, poll, fetch) is caught and logged, the request goes on with
\* the next image, so every image of the archive is processed or logged as
\* failed and the request raises only when no image was processed; in
\* single-image mode the exception of a stage ends the request as its error.
C21_ArchiveContinuesSingleRaises ==
  pipeline = "masking" =>
    /\ mode = "archive" =>
         /\ processed_images + logged_failures = ImagesLeft
         /\ pc \in {"m_loop_end", "done"} => idx = n_items
         /\ error \in MaskStages => outcome # "raised"
         /\ outcome = "raised" => (pc = "done" /\ processed_images = 0)
    /\ mode = "single" =>
         (error \in MaskStages => (outcome = "raised" /\ pc = "done"))

\* C21 witness: the first image of an archive failed at its upload and the
\* second image's job is being waited for.
C21_Witness ==
  /\ pipeline = "masking" /\ mode = "archive" /\ n_items = 2
  /\ error = "upload" /\ logged_failures = 1 /\ idx = 2 /\ pc = "m_wait"

\* --------------------------------------------- claims on the job sequence
\* The items whose job the engine accepted, and those of them whose wait
\* (download_processed_image, _poll_history and _fetch_first_image) has not
\* returned yet.
AcceptedJobs ==
  { submissions[k].item : k \in { j \in DOMAIN submissions : submissions[j].answer = "id" } }
OpenJobs == AcceptedJobs \ waits

\* C22: within one request at most one job is open at any time, in the pair
\* loop and in the archive loop: a POST /prompt is made only when every job
\* accepted before has been waited to its end (downloaded, failed or timed
\* out), and the items are posted in increasing order.
C22_OneJobInFlight ==
  [][ /\ Cardinality(OpenJobs') <= 1
      /\ submissions' # submissions =>
           /\ OpenJobs = {}
           /\ \A k \in DOMAIN submissions : submissions[k].item < idx ]_vars

\* C22 witness: the first pair's job was accepted and waited for, the second
\* pair's job has been accepted and is the only open one.
C22_Witness ==
  /\ pipeline = "compositing" /\ Len(submissions) = 2
  /\ AcceptedJobs = {1, 2} /\ waits = {1} /\ OpenJobs = {2} /\ pc = "download"

\* ------------------------------------------- claims on the pair's stages
\* C30: the stages of a pair follow one another in the order uploads (input,
\* then mask), graph mutation, submit, wait (history polls and image
\* fetches): the mutation is made only with both uploaded names of this
\* pair, a job is posted only after both uploads of this pair succeeded and
\* update_workflow returned a graph, and that graph is the one posted; a job
\* is waited for only if the POST made for this pair returned a job id.
C30_PairStagesInOrder ==
  [][ pipeline = "compositing" =>
      /\ (pc = "update" /\ pc' # pc) =>
           /\ pair_uploads = 2 * idx
           /\ ~IsNone(input_filename) /\ ~IsNone(mask_filename)
           /\ input_filename = own_input /\ mask_filename = own_mask
           /\ PostsOf(idx) = {}
      /\ submissions' # submissions =>
           /\ pc = "submit" /\ pair_uploads = 2 * idx
           /\ ~IsNone(input_filename) /\ ~IsNone(mask_filename)
           /\ ~IsNone(updated_workflow)
           /\ prompt' = Some([item |-> idx, graph |-> Val(updated_workflow)])
           /\ idx \notin waits
      /\ (pc = "download" /\ pc' # pc) =>
           /\ waits' = waits \cup {idx}
           /\ submissions # << >>
           /\ submissions[Len(submissions)] = [item |-> idx, answer |-> "id"] ]_vars

\* C30 witness: the second pair went through its uploads, the mutation and
\* an accepted submit and has been waited for, after a first pair whose
\* submit was refused and which was never waited for.
C30_Witness ==
  /\ pipeline = "compositing" /\ n_items = 2 /\ pair_uploads = 4
  /\ Len(submissions) = 2 /\ submissions[1] = [item |-> 1, answer |-> "non2xx"]
  /\ submissions[2] = [item |-> 2, answer |-> "id"]
  /\ waits = {2} /\ pc = "loop_end"

\* ------------------------------- specification: the process_images request
\* routes/workflow.py: the handler of POST /process_images, which calls
\* process_images_api on the thread it runs on, and the two task routes.
RequiredFiles == {"Background", "Workflow", "Style Folder"}
TempDirs == {"tmp_a", "tmp_b"}            \* names tempfile.mkdtemp may pick
TaskIds == {"SYNC_PROCESSING", "task-1"}  \* task ids a client may ask for

HTTPException(status, detail) == [status |-> status, detail |-> detail]

\* Lines 177-184: the outer except catches every exception of the handler,
\* HTTPException included, and raises HTTP 500 around its text.
outer_except(e) == [status |-> 500, detail |-> e.detail]

\* verify_required_files: every configured path exists.
verify_required_files_unchecked(existing) == TRUE
verify_required_files(existing) == RequiredFiles \subseteq existing

\* shutil.rmtree(temp_dir) on the directories on disk. The directory is the
\* request's own and its removal is taken to succeed (a failing rmtree is
\* logged at line 175 and the answer is not changed).
rmtree_ignored(on_disk, d) == on_disk
rmtree(on_disk, d) == on_disk \ {d}

\* `task_id not in processing_tasks`, negated.
task_known_always(tasks, t) == TRUE
task_known(tasks, t) == t \in DOMAIN tasks

\* Bodies of the uploaded prompts file: not JSON, a dict of products, or the
\* list format (one single-product dict per item).
PromptBodies ==
  { [kind |-> "invalid"] } \cup
  { [kind |-> "dict", value |-> pd] : pd \in GraphPrompts \cup { << >> } } \cup
  { [kind |-> "list", value |-> << pd >>] : pd \in GraphPrompts }

\* Lines 85-91: the items of a non-empty list are merged into one dict, in
\* order (the product ids of the bodies drawn are distinct).
RECURSIVE converted_data(_)
converted_data(items) ==
  IF items = << >> THEN << >> ELSE Head(items) \o converted_data(Tail(items))

\* What the handler's steps leave alone.
HandlerFrame ==
  /\ UNCHANGED << pvars, jvars, uvars, dvars >>
  /\ UNCHANGED << required_styles, style_file_matches, style_images, upload_failures,
                  matching_pairs, skipped >>
  /\ UNCHANGED << pipeline, updated_workflow, graph, graph_copy, mode, n_items, idx,
                  input_filename, mask_filename, bg_filename, style_filename,
                  default_prompt, comfy_name, prompt, own_input, own_mask,
                  successful_images, failed_images, processed_images, outcome,
                  error >>
  /\ UNCHANGED << required_files, processing_tasks, query_answer >>
  /\ UNCHANGED << mvars, nvars, cvars, lvars >>

\* The handler leaves its inner try with exception or response r.
Leaves(r) == h_pc' = "finally" /\ answer' = Some(r)

\* Lines 51-53: the configuration check; without the files HTTP 500 is raised
\* (and wrapped by the outer except) before the temp directory is made.
VerifyRequiredFiles ==
  /\ h_pc = "verify"
  /\ IF verify_required_files(required_files)
     THEN h_pc' = "mkdtemp" /\ answer' = answer
     ELSE /\ h_pc' = "answered"
          /\ answer' = Some(outer_except(HTTPException(500, "Required files missing")))
  /\ UNCHANGED << temp_dir, dirs, pc, loaded, workflow, prompts_data,
                  input_folder, mask_folder >>
  /\ HandlerFrame

\* Line 56: tempfile.mkdtemp() makes a directory that did not exist.
MakeTempDir ==
  /\ h_pc = "mkdtemp"
  /\ \E d \in TempDirs \ dirs : temp_dir' = Some(d) /\ dirs' = dirs \cup {d}
  /\ h_pc' = "extract"
  /\ UNCHANGED << answer, pc, loaded, workflow, prompts_data, input_folder,
                  mask_folder >>
  /\ HandlerFrame

\* Lines 61-76: the sub-directories are made and both archives extracted; a
\* failed extraction raises HTTP 400.
ExtractZips ==
  /\ h_pc = "extract"
  /\ \/ \E n \in 0..MaxPairs :
          /\ input_folder' = FolderOf(n) /\ mask_folder' = Range(FolderOf(n))
          /\ h_pc' = "prompts" /\ answer' = answer
     \/ \E d \in {"Failed to extract images ZIP", "Failed to extract masks ZIP"} :
          /\ Leaves(HTTPException(400, d))
          /\ UNCHANGED << input_folder, mask_folder >>
  /\ UNCHANGED << temp_dir, dirs, pc, loaded, workflow, prompts_data >>
  /\ HandlerFrame

\* Lines 79-95: the prompts file is read and decoded; the list format is
\* converted; a body that is not JSON raises HTTP 400.
LoadPrompts ==
  /\ h_pc = "prompts"
  /\ \E body \in PromptBodies :
       IF body.kind = "invalid"
       THEN Leaves(HTTPException(400, "Invalid prompts JSON")) /\ prompts_data' = prompts_data
       ELSE /\ prompts_data' = IF body.kind = "list" /\ body.value # << >>
                                THEN converted_data(body.value) ELSE body.value
            /\ h_pc' = "load_workflow" /\ answer' = answer
  /\ UNCHANGED << temp_dir, dirs, pc, loaded, workflow, input_folder, mask_folder >>
  /\ HandlerFrame

\* Lines 98-113: load_json_file answers the graph or None (HTTP 500); with
\* the graph process_images_api is called.
LoadWorkflow ==
  /\ h_pc = "load_workflow"
  /\ \E r \in {None, Some(FullTemplate)} :
       IF IsNone(r)
       THEN /\ Leaves(HTTPException(500, "Failed to load workflow JSON"))
            /\ UNCHANGED << pc, loaded, workflow >>
       ELSE /\ loaded' = Val(r) /\ workflow' = Val(r)
            /\ pc' = "bg_upload" /\ h_pc' = "batch" /\ answer' = answer
  /\ UNCHANGED << temp_dir, dirs, prompts_data, input_folder, mask_folder >>
  /\ HandlerFrame

\* Lines 114-167: process_images_api has returned or raised; an exception
\* becomes HTTP 500, otherwise the output directory is zipped and returned.
BatchReturned ==
  /\ h_pc = "batch" /\ pc = "done"
  /\ Leaves(IF outcome = "raised"
            THEN HTTPException(500, "Image processing failed")
            ELSE IF successful_images = 0
                 THEN HTTPException(500, "No image files were generated")
                 ELSE [status |-> 200, detail |-> "processed_images.zip"])
  /\ UNCHANGED << temp_dir, dirs, pc, loaded, workflow, prompts_data,
                  input_folder, mask_folder >>
  /\ HandlerFrame

\* Lines 169-184: the finally clause removes the temp directory; then the
\* response is returned or the exception wrapped by the outer except.
Cleanup ==
  /\ h_pc = "finally"
  /\ dirs' = rmtree(dirs, Val(temp_dir))
  /\ answer' = IF Val(answer).status = 200 THEN answer
               ELSE Some(outer_except(Val(answer)))
  /\ h_pc' = "answered"
  /\ UNCHANGED << temp_dir, pc, loaded, workflow, prompts_data, input_folder,
                  mask_folder >>
  /\ HandlerFrame

\* The points at which the event loop may run another handler: before and
\* after the request, and at `await prompts_json.read()`.
AwaitPoints == {"verify", "prompts", "answered"}

QueryFrame ==
  /\ UNCHANGED << gvars, pvars, svars, fvars, jvars, uvars, dvars >>
  /\ UNCHANGED << h_pc, required_files, temp_dir, dirs, answer, processing_tasks >>
  /\ UNCHANGED << mvars, nvars, cvars, lvars >>

\* get_status, lines 186-192.
GetStatus ==
  /\ h_pc \in AwaitPoints
  /\ \E t \in TaskIds :
       query_answer' =
         Some([route |-> "status", task |-> t] @@
              (IF ~task_known(processing_tasks, t)
               THEN HTTPException(404, "Task not found")
               ELSE [status |-> 200, detail |-> "ProcessingStatus"]))
  /\ QueryFrame

\* download_results, lines 194-225.
DownloadResults ==
  /\ h_pc \in AwaitPoints
  /\ \E t \in TaskIds :
       query_answer' =
         Some([route |-> "download", task |-> t] @@
              (IF ~task_known(processing_tasks, t)
               THEN HTTPException(404, "Task not found")
               ELSE IF Get(processing_tasks, t, [status |-> "none"]).status # "completed"
                    THEN HTTPException(400, "Task not completed yet")
                    ELSE [status |-> 200, detail |-> "FileResponse"]))
  /\ QueryFrame

\* The next POST /process_images: the handler's and the orchestrator's locals
\* are those of a new activation.
NewRequest ==
  /\ h_pc = "answered"
  /\ h_pc' = "verify" /\ required_files' \in SUBSET RequiredFiles
  /\ temp_dir' = None /\ answer' = None
  /\ pc' = "idle" /\ loaded' = EmptyDict /\ workflow' = EmptyDict
  /\ updated_workflow' = None /\ n_items' = 0 /\ idx' = 1
  /\ input_filename' = None /\ mask_filename' = None /\ bg_filename' = None
  /\ style_filename' = None /\ default_prompt' = DEFAULT_PROMPT /\ prompt' = None
  /\ own_input' = None /\ own_mask' = None
  /\ successful_images' = 0 /\ failed_images' = 0
  /\ outcome' = "running" /\ error' = "none"
  /\ prompts_data' = << >> /\ required_styles' = {} /\ style_file_matches' = {}
  /\ style_images' = EmptyDict /\ upload_failures' = {}
  /\ input_folder' = << >> /\ mask_folder' = {}
  /\ matching_pairs' = << >> /\ skipped' = << >>
  /\ submissions' = << >> /\ waits' = {} /\ logged_failures' = 0 /\ pair_uploads' = 0
  /\ UNCHANGED << pipeline, graph, graph_copy, mode, comfy_name, processed_images >>
  /\ UNCHANGED << pvars, uvars, dvars, dirs, processing_tasks, query_answer >>
  /\ UNCHANGED << mvars, nvars, cvars, lvars >>

\* State when the first request arrives: no temp directory, an empty
\* registry (line 37), any of the configured paths present.
InitRequest ==
  /\ pipeline = "compositing" /\ pc = "idle" /\ mode = "batch" /\ n_items = 0
  /\ h_pc = "verify" /\ required_files \in SUBSET RequiredFiles
  /\ temp_dir = None /\ dirs = {} /\ answer = None
  /\ processing_tasks = EmptyDict /\ query_answer = None
  /\ IdleInputs /\ IdleLocals /\ IdlePoll /\ IdleUpload /\ IdleDownload
  /\ IdleStyle /\ IdleNames /\ IdleServer /\ IdleLater

NextRequest ==
  \/ VerifyRequiredFiles
  \/ MakeTempDir
  \/ ExtractZips
  \/ LoadPrompts
  \/ LoadWorkflow
  \/ UploadBackground
  \/ ResolveStyles
  \/ UploadStyles
  \/ MatchPairs
  \/ UploadPair
  \/ UpdateWorkflow
  \/ SubmitWorkflow
  \/ DownloadResult
  \/ FinishBatch
  \/ BatchReturned
  \/ Cleanup
  \/ GetStatus
  \/ DownloadResults
  \/ NewRequest

SpecRequest == InitRequest /\ [][NextRequest]_vars

\* -------------------------------------------------- claims on the request
\* Some request has been sent to the render engine: the orchestrator has
\* made its first step, the background upload, which every other request
\* to the engine follows.
EngineContacted ==
  \/ pc \notin {"idle", "bg_upload"}
  \/ ~IsNone(bg_filename) \/ pair_uploads > 0 \/ submissions # << >> \/ waits # {}

C24_ConfigCheckedBeforeNetwork ==
  (h_pc # "none" /\ required_files # RequiredFiles) =>
    /\ h_pc \in {"verify", "answered"}
    /\ ~EngineContacted /\ IsNone(temp_dir) /\ dirs = {}
    /\ h_pc = "answered" =>
         answer = Some([status |-> 500, detail |-> "Required files missing"])

\* C24 witness: a request made while only the style folder is missing has
\* been answered with the error.
C24_Witness ==
  /\ required_files = {"Background", "Workflow"} /\ h_pc = "answered"
  /\ answer = Some([status |-> 500, detail |-> "Required files missing"])
  /\ ~EngineContacted

\* C29: the task registry is empty in every reachable state, and every
\* get_status and download_results is answered 404 'Task not found', for
\* every task id and after any requests.
C29_RegistryAlwaysEmpty ==
  /\ processing_tasks = EmptyDict
  /\ ~IsNone(query_answer) =>
       (Val(query_answer).status = 404 /\ Val(query_answer).detail = "Task not found")

\* C29 witness: after a request that returned its ZIP, the results of the
\* task id the handler passes to process_images_api are asked for and
\* answered 404.
C29_Witness ==
  /\ h_pc = "answered" /\ ~IsNone(answer) /\ Val(answer).status = 200
  /\ query_answer = Some([route |-> "download", task |-> "SYNC_PROCESSING",
                           status |-> 404, detail |-> "Task not found"])

\* ------------------------------------ specification: matching the styles
\* find_style_file_matches over style names and file names spelled out as
\* sequences of characters, so that lower(), `in` and == are computed.
MaxStyleFiles == 3        \* files under the style folder
EXACT_BONUS == 10         \* workflow_service.py:207

\* str.lower() on the characters in use.
lower_char(c) == CASE c = "A" -> "a" [] c = "B" -> "b" [] OTHER -> c
str_lower(w) == [i \in DOMAIN w |-> lower_char(w[i])]

\* `sub in w` on strings.
contains(sub, w) ==
  \E i \in 0..(Len(w) - Len(sub)) : SubSeq(w, i + 1, i + Len(sub)) = sub

\* Lines 198-207: the similarity score of a file name without extension.
match_score_containment_only(style_name, name_without_ext) ==
  IF \/ contains(str_lower(style_name), str_lower(name_without_ext))
     \/ contains(str_lower(name_without_ext), str_lower(style_name))
  THEN 1 ELSE 0
match_score(style_name, name_without_ext) ==
  (IF contains(str_lower(style_name), str_lower(name_without_ext)) THEN 1 ELSE 0)
  + (IF contains(str_lower(name_without_ext), str_lower(style_name)) THEN 1 ELSE 0)
  + (IF str_lower(style_name) = str_lower(name_without_ext) THEN EXACT_BONUS ELSE 0)

\* Lines 191-211: the loop over style_files; a file replaces the best match
\* only with a strictly higher score.
RECURSIVE best_match(_, _, _, _)
best_match(style_name, style_files, best, best_score) ==
  IF style_files = << >> THEN [file |-> best, score |-> best_score]
  ELSE LET score == match_score(style_name, Head(style_files).base)
       IN IF score > best_score
          THEN best_match(style_name, Tail(style_files), Some(Head(style_files)), score)
          ELSE best_match(style_name, Tail(style_files), best, best_score)

\* find_style_file_matches: no folder gives the empty dict; otherwise the
\* image files are listed and every style with a best match of positive
\* score is entered.
find_style_file_matches(required, folder) ==
  IF IsNone(folder) THEN EmptyDict
  ELSE LET style_files == listed_images(Val(folder))
           found(s) == best_match(s, style_files, None, 0)
       IN [s \in { r \in required : ~IsNone(found(r).file) /\ found(r).score > 0 } |->
             Val(found(s).file)]

\* Names of styles in the prompt data and of files under the style folder.
RequiredNames == { << "a", "b" >>, << "B" >>, << "a", "b", "a" >> }
StyleFiles ==
  { [base |-> w, ext |-> ".png"] :
      w \in { << "a" >>, << "A", "B" >>, << "a", "b" >>, << "b", "a" >>,
              << "a", "b", "a" >>, << "c" >> } }
  \cup { [base |-> << "a", "b" >>, ext |-> ".txt"],
         [base |-> << "B" >>, ext |-> ".JPG"] }

\* Lines 414-422: step 3 of process_images_api; a required style without a
\* match raises.
FindStyleFileMatches ==
  /\ pipeline = "compositing" /\ pc = "match_styles"
  /\ LET m == find_style_file_matches(required_styles, style_folder)
     IN /\ matched_files' = m
        /\ style_file_matches' = DOMAIN m
        /\ IF { st \in required_styles : st \notin DOMAIN m } # {}
           THEN Raise("missing_styles")
           ELSE pc' = "style_upload" /\ outcome' = outcome /\ error' = error
  /\ UNCHANGED << prompts_data, required_styles, style_images, upload_failures,
                  style_folder >>
  /\ UNCHANGED << pvars, fvars, jvars, uvars, dvars, hvars, nvars, cvars, lvars >>
  /\ UNCHANGED << pipeline, loaded, workflow, updated_workflow, graph, graph_copy,
                  mode, n_items, idx, input_filename, mask_filename, bg_filename,
                  style_filename, default_prompt, comfy_name, prompt, own_input,
                  own_mask, successful_images, failed_images, processed_images >>

\* State after step 2: the background is uploaded, the required styles are
\* known and not empty; the style folder is missing or holds some files.
InitStyle ==
  /\ pipeline = "compositing" /\ pc = "match_styles" /\ mode = "batch" /\ n_items = 0
  /\ bg_filename \in {Some(x) : x \in BgNames}
  /\ required_styles \in (SUBSET RequiredNames) \ { {} }
  /\ style_folder \in {None} \cup
       { Some(l) : l \in UNION { [1..n -> StyleFiles] : n \in 0..MaxStyleFiles } }
  /\ matched_files = EmptyDict /\ style_file_matches = {}
  /\ style_images = EmptyDict /\ upload_failures = {}
  /\ IdleInputs /\ IdleLoop /\ IdlePoll /\ IdleUpload /\ IdleDownload
  /\ IdleHandler /\ IdleNames /\ IdleServer /\ IdleLater

SpecStyle == InitStyle /\ [][FindStyleFileMatches]_vars

\* --------------------------------------------------- claims on the styles
\* The image files the style folder holds, in the order they are listed.
style_files_listed == IF IsNone(style_folder) THEN << >> ELSE listed_images(Val(style_folder))
ExactMatch(st, f) == str_lower(st) = str_lower(f.base)
ContainmentMatch(st, f) ==
  \/ contains(str_lower(st), str_lower(f.base))
  \/ contains(str_lower(f.base), str_lower(st))
StylesResolved == pc \in {"style_upload", "done"}

\* C25: find_style_file_matches maps a required style to an image file of
\* highest score; a file whose name without extension equals the style name
\* case-insensitively outscores every file matching only by containment, so
\* an exact match is chosen whenever there is one; a style that no image
\* file matches exactly or by containment is absent from the result, and
\* process_images_api raises for the missing style.
C25_ExactMatchOutscoresContainment ==
  StylesResolved =>
    \A st \in required_styles :
      LET fs == Range(style_files_listed)
      IN /\ st \in DOMAIN matched_files =>
              /\ matched_files[st] \in fs
              /\ ContainmentMatch(st, matched_files[st])
              /\ \A f \in fs :
                   match_score(st, f.base) <= match_score(st, matched_files[st].base)
         /\ \A f, g \in fs :
              (ExactMatch(st, f) /\ ~ExactMatch(st, g)) =>
                match_score(st, f.base) > match_score(st, g.base)
         /\ (\E f \in fs : ExactMatch(st, f)) =>
              (st \in DOMAIN matched_files /\ ExactMatch(st, matched_files[st]))
         /\ (\A f \in fs : ~ContainmentMatch(st, f)) =>
              /\ st \notin DOMAIN matched_files
              /\ outcome = "raised" /\ error = "missing_styles"

\* C25 witness: the folder lists a file that only contains the style name
\* before a file that equals it up to case, and the second is chosen.
C25_Witness ==
  /\ pc = "style_upload" /\ required_styles = { << "a", "b" >> }
  /\ style_files_listed = << [base |-> << "a", "b", "a" >>, ext |-> ".png"],
                             [base |-> << "A", "B" >>, ext |-> ".png"] >>
  /\ matched_files[<< "a", "b" >>] = [base |-> << "A", "B" >>, ext |-> ".png"]

\* ---------------------------------- specification: the unique remote names
\* The two uploads of one pair (lines 514-519), attempt by attempt, with the
\* clock upload_image_with_retry reads for make_unique.
MaxElapsed == 1           \* milliseconds between two readings of the clock

\* Lines 134-137: f"{name}_{timestamp}{ext}" of os.path.basename(image_path);
\* the folder of the path is not part of the name.
unique_filename(folder, file, timestamp) ==
  [name |-> file.base, stamp |-> timestamp, ext |-> file.ext]

\* Lines 127-154, one iteration of the loop of the call for `file` of
\* `folder`: the clock is read ms milliseconds after its last reading, the
\* file is posted under its unique name, and the answer returns a name, or
\* the loop sleeps RETRY_DELAY seconds, or, on the last attempt, returns None.
UniqueAttempt(folder, file, ms, ok, next) ==
  /\ attempt < MAX_RETRIES
  /\ sent_names' = Append(sent_names,
                          [call |-> folder, name |-> unique_filename(folder, file, now + ms)])
  /\ IF ok \/ ~sleeps_after(pipeline, attempt)
     THEN now' = now + ms /\ attempt' = 0 /\ pc' = next
     ELSE now' = now + ms + RETRY_DELAY * 1000 /\ attempt' = attempt + 1 /\ pc' = pc

NamesFrame ==
  /\ UNCHANGED << clock, response, history, loop_exit, node, result, only_misses,
                  seen_non200 >>
  /\ UNCHANGED << svars, fvars, jvars, uvars, dvars, hvars, mvars, cvars, lvars >>
  /\ UNCHANGED << pipeline, loaded, workflow, updated_workflow, graph, graph_copy,
                  mode, n_items, idx, bg_filename, style_filename, default_prompt,
                  comfy_name, prompt, own_input, own_mask, successful_images,
                  failed_images, processed_images, outcome, error >>

\* Line 518: upload_image_with_retry(input_path, server_url, make_unique=True)
UploadInputUnique ==
  /\ pipeline = "compositing" /\ pc = "n_input"
  /\ \E ms \in 0..MaxElapsed, r \in {None} \cup {Some(x) : x \in RemoteNames} :
       /\ UniqueAttempt("input_images", matching_pairs[idx][1], ms, ~IsNone(r), "n_mask")
       /\ input_filename' = r
  /\ mask_filename' = mask_filename
  /\ NamesFrame

\* Line 519: upload_image_with_retry(mask_path, server_url, make_unique=True)
UploadMaskUnique ==
  /\ pipeline = "compositing" /\ pc = "n_mask"
  /\ \E ms \in 0..MaxElapsed, r \in {None} \cup {Some(x) : x \in RemoteNames} :
       /\ UniqueAttempt("masks", matching_pairs[idx][2], ms, ~IsNone(r), "n_uploaded")
       /\ mask_filename' = r
  /\ input_filename' = input_filename
  /\ NamesFrame

\* State at line 514 for the first pair: an input and the mask found for it.
InitNames ==
  /\ pipeline = "compositing" /\ pc = "n_input" /\ mode = "batch" /\ n_items = 1
  /\ loaded = EmptyDict /\ workflow = EmptyDict /\ graph = EmptyDict
  /\ prompts_data = << >>
  /\ \E f \in { x \in Range(InputNames) : is_image(x) } :
       /\ input_folder = << f >>
       /\ \E S \in SUBSET { m \in MaskNames : m.base = f.base } :
            /\ mask_folder = S
            /\ ~pairing_failed(find_pairs(<< f >>, S))
            /\ matching_pairs = find_pairs(<< f >>, S).pairs
  /\ skipped = << >>
  /\ now = 0 /\ sent_names = << >>
  /\ updated_workflow = None /\ graph_copy = None /\ idx = 1
  /\ input_filename = None /\ mask_filename = None /\ style_filename = None
  /\ default_prompt = DEFAULT_PROMPT /\ comfy_name = None /\ prompt = None
  /\ own_input = None /\ own_mask = None
  /\ successful_images = 0 /\ failed_images = 0 /\ processed_images = 0
  /\ outcome = "running" /\ error = "none"
  /\ submissions = << >> /\ waits = {} /\ logged_failures = 0 /\ pair_uploads = 0
  /\ bg_filename = None /\ required_styles = {} /\ style_file_matches = {}
  /\ style_images = EmptyDict /\ upload_failures = {}
  /\ IdlePoll /\ IdleUpload /\ IdleDownload /\ IdleHandler /\ IdleStyle /\ IdleServer /\ IdleLater

NextNames ==
  \/ UploadInputUnique
  \/ UploadMaskUnique

SpecNames == InitNames /\ [][NextNames]_vars

\* ---------------------------------------------- claims on the unique names
\* C26: with make_unique no two uploads are sent under the same remote name:
\* the names posted by different calls of the uploader differ, those of the
\* input and of the mask of one pair included.
C26_UniqueNamesNeverCollide ==
  \A i, j \in DOMAIN sent_names :
    sent_names[i].call # sent_names[j].call => sent_names[i].name # sent_names[j].name

\* ------------------------------------------- specification: the server
\* main.py runs one uvicorn process: one event loop thread runs the `async
\* def` handlers, each from one await to the next; routes/mask.py hands
\* process_image to a thread of an executor, routes/workflow.py calls
\* process_images_api itself.
MaxRequests == 2          \* requests sent to the server

Requests == 1..MaxRequests
Endpoints == {"mask", "workflow"}
DirNames == { << "tmp", i >> : i \in Requests }   \* names mkdtemp may pick
Objects == Requests                                \* identities of graph objects

\* tempfile.mkdtemp(): the names it may pick, none of which exists.
mkdtemp_fixed(existing) == { << "tmp", 1 >> }
mkdtemp(existing) == DirNames \ existing

\* json.load / json.loads: the identities the new object may get.
new_object(bound) == Objects \ bound

\* The thread the pipeline of an endpoint runs on: mask.py:57-65 awaits
\* loop.run_in_executor(executor, process_image, ...), workflow.py:105-113
\* calls process_images_api in the coroutine.
pipeline_thread(e) == IF e = "mask" THEN "worker" ELSE "event_loop"

Put(f, k, v) == [x \in DOMAIN f \cup {k} |-> IF x = k THEN v ELSE f[x]]
Without(f, k) == [x \in DOMAIN f \ {k} |-> f[x]]

\* The event loop starts the handler of a request that has arrived; the
\* handler runs up to its first await. mask.py:38-52 picks the engine URL
\* and awaits file.read(); workflow.py:48-79 checks the configuration, makes
\* the temp directory, extracts both archives into it and awaits
\* prompts_json.read().
Accept(r) ==
  /\ running = None /\ r_pc[r] = "sent"
  /\ IF endpoint[r] = "mask"
     THEN /\ r_pc' = Put(r_pc, r, "m_reading")
          /\ UNCHANGED << r_dir, files >>
     ELSE \E d \in mkdtemp(DOMAIN files) :
            /\ r_dir' = Put(r_dir, r, Some(d))
            /\ files' = Put(files, d, {r})
            /\ r_pc' = Put(r_pc, r, "w_reading")
  /\ UNCHANGED << endpoint, running, r_graph, heap >>

\* mask.py:53-65: the read has returned; process_image is submitted to the
\* executor and the handler awaits its future.
MaskOffload(r) ==
  /\ running = None /\ r_pc[r] = "m_reading"
  /\ r_pc' = Put(r_pc, r, "m_load")
  /\ UNCHANGED << endpoint, running, r_dir, r_graph, heap, files >>

\* mask_service.py:221-228, on the pipeline's thread: the graph is loaded
\* into a new object.
MaskLoadGraph(r) ==
  /\ r_pc[r] = "m_load"
  /\ \E o \in new_object(DOMAIN heap) :
       /\ r_graph' = Put(r_graph, r, Some(o))
       /\ heap' = Put(heap, o, None)
  /\ r_pc' = Put(r_pc, r, "m_job")
  /\ UNCHANGED << endpoint, running, r_dir, files >>

\* mask_service.py:135-150: the request's image is uploaded, its name is
\* written into the graph and the graph is queued and waited for.
MaskJob(r) ==
  /\ r_pc[r] = "m_job"
  /\ heap' = Put(heap, Val(r_graph[r]), Some(r))
  /\ r_pc' = Put(r_pc, r, "m_done")
  /\ UNCHANGED << endpoint, running, r_dir, r_graph, files >>

\* mask.py:67-86: the future is done; the handler resumes and answers.
MaskRespond(r) ==
  /\ running = None /\ r_pc[r] = "m_done"
  /\ r_pc' = Put(r_pc, r, "answered")
  /\ UNCHANGED << endpoint, running, r_dir, r_graph, heap, files >>

\* workflow.py:80-105: the read has returned; the prompts are decoded, the
\* workflow is loaded into a new object and process_images_api is called on
\* the thread of `pipeline_thread`.
WorkflowResume(r) ==
  /\ running = None /\ r_pc[r] = "w_reading"
  /\ \E o \in new_object(DOMAIN heap) :
       /\ r_graph' = Put(r_graph, r, Some(o))
       /\ heap' = Put(heap, o, None)
  /\ running' = IF pipeline_thread(endpoint[r]) = "event_loop" THEN Some(r) ELSE None
  /\ r_pc' = Put(r_pc, r, "w_uploads")
  /\ UNCHANGED << endpoint, r_dir, files >>

\* workflow_service.py:396-445: the background and the styles are uploaded.
WorkflowUploads(r) ==
  /\ r_pc[r] = "w_uploads"
  /\ r_pc' = Put(r_pc, r, "w_pairs")
  /\ UNCHANGED << endpoint, running, r_dir, r_graph, heap, files >>

\* workflow_service.py:506-568: the pairs are processed: the graph is given
\* the names of this request's uploads and the outputs are written under
\* the request's temp directory.
WorkflowPairs(r) ==
  /\ r_pc[r] = "w_pairs"
  /\ heap' = Put(heap, Val(r_graph[r]), Some(r))
  /\ files' = Put(files, Val(r_dir[r]), files[Val(r_dir[r])] \cup {r})
  /\ r_pc' = Put(r_pc, r, "w_returned")
  /\ UNCHANGED << endpoint, running, r_dir, r_graph >>

\* workflow.py:114-175: the outputs are zipped, the temp directory is
\* removed and the handler answers.
WorkflowRespond(r) ==
  /\ r_pc[r] = "w_returned"
  /\ running \in {None, Some(r)}
  /\ files' = Without(files, Val(r_dir[r]))
  /\ running' = None
  /\ r_pc' = Put(r_pc, r, "answered")
  /\ UNCHANGED << endpoint, r_dir, r_graph, heap >>

ServerFrame ==
  UNCHANGED << gvars, pvars, svars, fvars, jvars, uvars, dvars, hvars, mvars, nvars, lvars >>

\* State when the requests have been sent and none has been accepted.
InitServer ==
  /\ endpoint \in [Requests -> Endpoints]
  /\ r_pc = [r \in Requests |-> "sent"]
  /\ running = None
  /\ r_dir = [r \in Requests |-> None] /\ r_graph = [r \in Requests |-> None]
  /\ heap = EmptyDict /\ files = EmptyDict
  /\ pipeline = "server" /\ pc = "none" /\ mode = "none" /\ n_items = 0
  /\ IdleInputs /\ IdleLocals /\ IdlePoll /\ IdleUpload /\ IdleDownload
  /\ IdleHandler /\ IdleStyle /\ IdleNames /\ IdleLater

NextServer ==
  \/ \E r \in Requests : Accept(r) /\ ServerFrame
  \/ \E r \in Requests : MaskOffload(r) /\ ServerFrame
  \/ \E r \in Requests : MaskLoadGraph(r) /\ ServerFrame
  \/ \E r \in Requests : MaskJob(r) /\ ServerFrame
  \/ \E r \in Requests : MaskRespond(r) /\ ServerFrame
  \/ \E r \in Requests : WorkflowResume(r) /\ ServerFrame
  \/ \E r \in Requests : WorkflowUploads(r) /\ ServerFrame
  \/ \E r \in Requests : WorkflowPairs(r) /\ ServerFrame
  \/ \E r \in Requests : WorkflowRespond(r) /\ ServerFrame

SpecServer == InitServer /\ [][NextServer]_vars

\* --------------------------------------------------- claims on the server
\* The pipeline of request r (process_image, process_images_api) is running.
InPipeline(r) == r_pc[r] \in {"m_load", "m_job", "w_uploads", "w_pairs"}

\* C27: every request runs its pipeline on a worker thread, at the masking
\* and at the background-replace endpoint: while a pipeline is running the
\* event loop thread is not held by it, so that a request that has arrived
\* can be accepted.
C27_PipelineOffTheEventLoop ==
  \A r \in Requests :
    InPipeline(r) =>
      /\ running # Some(r)
      /\ \A q \in Requests : r_pc[q] = "sent" => running = None

\* Request r holds a temp directory / a graph object of its own.
HoldsDir(r) == ~IsNone(r_dir[r]) /\ r_pc[r] # "answered"
HoldsGraph(r) == ~IsNone(r_graph[r]) /\ r_pc[r] # "answered"

\* C28: two requests being served never share a temp directory or a graph
\* object: their directories and their graph objects differ, the files
\* under a directory were written by the request that made it, and a graph
\* object names only the uploads of the request that loaded it.
C28_NoSharedDirOrGraph ==
  /\ \A r, q \in Requests :
       r # q =>
         /\ (HoldsDir(r) /\ HoldsDir(q)) => r_dir[r] # r_dir[q]
         /\ (HoldsGraph(r) /\ HoldsGraph(q)) => r_graph[r] # r_graph[q]
  /\ \A r \in Requests : HoldsDir(r) => Val(r_dir[r]) \in DOMAIN files
  /\ \A d \in DOMAIN files : \A w \in files[d] : HoldsDir(w) /\ r_dir[w] = Some(d)
  /\ \A o \in DOMAIN heap :
       \A r \in Requests : heap[o] = Some(r) => r_graph[r] = Some(o)

\* C28 witness: a masking request and a background-replace request are in
\* their pipelines at once, each graph object names its own request's
\* upload and the outputs lie under the second request's directory.
C28_Witness ==
  /\ endpoint[1] = "mask" /\ endpoint[2] = "workflow"
  /\ r_pc[1] = "m_done" /\ r_pc[2] = "w_returned"
  /\ HoldsGraph(1) /\ HoldsGraph(2) /\ HoldsDir(2)
  /\ heap[Val(r_graph[1])] = Some(1) /\ heap[Val(r_graph[2])] = Some(2)
  /\ files[Val(r_dir[2])] = {2}

\* ------------------------------ specification: the stamps of a batch
\* process_images_api from step 5 on, on a complete template, over the
\* prompt data a request may carry and the names the style uploads returned.
UploadedStyleNames == {"st1", "st2"}

\* State when step 5 begins: the background and every required style are
\* uploaded (lines 396-447).
InitStamp ==
  /\ pipeline = "compositing" /\ pc = "pairing" /\ mode = "batch"
  /\ loaded = FullTemplate /\ workflow = loaded /\ graph = EmptyDict
  /\ n_items \in 1..MaxPairs
  /\ prompts_data \in { pd \in PromptsData : get_required_style_images(pd) # {} }
  /\ input_folder = FolderOf(n_items)
  /\ mask_folder = Range(FolderOf(n_items))
  /\ bg_filename \in {Some(x) : x \in BgNames}
  /\ required_styles = get_required_style_images(prompts_data)
  /\ style_file_matches = required_styles
  /\ style_images \in [required_styles -> UploadedStyleNames]
  /\ upload_failures = {}
  /\ IdleLoop /\ IdlePoll /\ IdleUpload /\ IdleDownload /\ IdleRequest

NextStamp ==
  \/ MatchPairs
  \/ UploadPair
  \/ UpdateWorkflow
  \/ SubmitWorkflow
  \/ DownloadResult
  \/ FinishBatch

SpecStamp == InitStamp /\ [][NextStamp]_vars

\* ------------------------------------------------- claims on the stamps
\* The first product entry of the prompt data, its text (or the default
\* text) and whether the style it names was uploaded.
FirstProduct == prompts_data[1][2]
FirstProductIsDict == prompts_data # << >> /\ IsDict(FirstProduct)
ExpectedPrompt ==
  IF FirstProductIsDict /\ "text" \in DOMAIN FirstProduct
  THEN FirstProduct.text ELSE DEFAULT_PROMPT
FirstStyleUploaded ==
  /\ FirstProductIsDict /\ "style_image" \in DOMAIN FirstProduct
  /\ FirstProduct.style_image \in DOMAIN style_images
\* what a posted graph carries in nodes 256, 110 and 448
JobStamps(g) ==
  << g["256"]["inputs"]["image"], g["110"]["inputs"]["image"],
     g["448"]["inputs"]["string"] >>
PairStages == {"pair_upload", "update", "submit", "download"}

\* C31: every job of one background-replace batch carries the same
\* background name, the same style name and the same prompt text: the three
\* are fixed before the first pair and no step of the pair loop changes them;
\* the text is that of the first product entry (the default text when it has
\* none), the style is the upload of the first entry's style, or of some
\* uploaded style when that style was not uploaded; every graph posted
\* carries exactly these three values.
C31_SameStampsForEveryJob ==
  [][ (pipeline = "compositing" /\ pc \in PairStages) =>
      /\ UNCHANGED << bg_filename, style_filename, default_prompt, style_images >>
      /\ default_prompt = ExpectedPrompt
      /\ IF FirstStyleUploaded
         THEN style_filename = Some(style_images[FirstProduct.style_image])
         ELSE \E s \in DOMAIN style_images : style_filename = Some(style_images[s])
      /\ prompt' # prompt =>
           JobStamps(Val(prompt').graph) =
             << Val(bg_filename), Val(style_filename), default_prompt >> ]_vars

\* C31 witness: the job of the second pair is posted with the text and the
\* style of the first of two products that differ in both.
C31_Witness ==
  /\ pipeline = "compositing" /\ pc = "download" /\ idx = 2
  /\ Len(prompts_data) = 2
  /\ prompts_data[1][2] = [text |-> "custom prompt", style_image |-> "casual"]
  /\ prompts_data[2][2] = [style_image |-> "formal"]
  /\ style_images["casual"] = "st1" /\ style_images["formal"] = "st2"
  /\ Val(prompt).item = 2
  /\ JobStamps(Val(prompt).graph) = << "bg1", "st1", "custom prompt" >>

\* ------------------------- specification: the wait of the masking job
\* _process_single_image lines 147-150: _poll_history, then
\* _fetch_first_image on the history it returned, up to the choice of the
\* image to request.

\* mask_service.py:104-113: node = outputs.get(OUTPUT_NODE_ID); when it is
\* None or falsy the first node with images replaces it, if there is one;
\* `if not node or not node.get("images")` raises HTTP 500 (None here).
fetch_resolve_designated_only(outputs) ==
  LET got == Lookup(outputs, OUTPUT_NODE_ID)
  IN  IF IsNone(got) \/ ~Truthy(Val(got)) \/ ~HasImages(Val(got)) THEN None ELSE got
fetch_resolve(outputs) ==
  LET got == Lookup(outputs, OUTPUT_NODE_ID)
      fb  == FirstWithImages(outputs)
      n1  == IF (IsNone(got) \/ ~Truthy(Val(got))) /\ ~IsNone(fb) THEN fb ELSE got
  IN  IF IsNone(n1) \/ ~Truthy(Val(n1)) \/ ~HasImages(Val(n1)) THEN None ELSE n1

\* _fetch_first_image(history, pid, base_url), lines 104-115, on the history
\* _poll_history returned.
FetchResolve ==
  /\ pipeline = "masking" /\ pc = "fetch" /\ result = "history"
  /\ LET n == fetch_resolve(Val(history)[PID]["outputs"])
     IN IF IsNone(n)
        THEN /\ raised' = Some(HTTPException(500, "No output images found"))
             /\ images' = images
             /\ pc' = "returned" /\ result' = "raised"
        ELSE /\ raised' = raised
             /\ images' = Val(n)["images"]
             /\ pc' = "view" /\ result' = result
  /\ UNCHANGED << clock, attempt, response, history, loop_exit, node, only_misses,
                  seen_non200 >>
  /\ UNCHANGED << path_exists, upload_requests, warnings, slept, last_err, uploaded >>
  /\ UNCHANGED << output_path, fetches, written, downloaded_count >>
  /\ UNCHANGED << gvars_but_pc, svars, fvars, jvars, rvars >>

InitMaskWait == InitPoll /\ pipeline = "masking"

NextMaskWait ==
  \/ MaskPoll
  \/ MaskSleep
  \/ FetchResolve

SpecMaskWait == InitMaskWait /\ [][NextMaskWait]_vars

\* ------------------------------------------- claims on the masking wait
\* C32: whenever _poll_history returns a history, the node it resolved holds
\* a non-empty images list, and _fetch_first_image on that history resolves
\* a node with the same non-empty images list and never raises
\* 'No output images found'.
C32_FetchAfterPollNeverRaises ==
  pipeline = "masking" =>
    /\ IsNone(raised)
    /\ result = "history" =>
         /\ ~IsNone(node) /\ HasImages(Val(node))
         /\ node = mask_resolve(Val(history)[PID]["outputs"])
    /\ pc = "view" =>
         /\ result = "history" /\ images # << >>
         /\ images = Val(node)["images"]

\* C32 witness: the designated node being absent from the outputs, a later
\* poll returned on the images of another node and the fetch resolved that
\* node.
C32_Witness ==
  /\ pipeline = "masking" /\ pc = "view" /\ attempt >= 2
  /\ IsNone(Lookup(Val(history)[PID]["outputs"], OUTPUT_NODE_ID))
  /\ images = << Img("9") >>

\* -------------------------- specification: a wait runs to its return
\* download_processed_image (the polling loop, the resolution of the node,
\* the variant loop) and _poll_history, each run by one thread that goes on
\* to its next statement as long as it has one.

\* Lines 337-382 in one step: the variant loop runs over at most VARIANT_CAP
\* images (FetchVariant, FinishDownload) and the call returns whether one
\* was written.
DownloadVariants ==
  /\ pipeline = "compositing" /\ pc = "download" /\ result = "images"
  /\ \E ok \in BOOLEAN : result' = IF ok THEN "True" ELSE "False"
  /\ pc' = "returned"
  /\ UNCHANGED << dvars, warnings >>
  /\ DownloadFrame

\* The engine of these runs answers every kind of answer, its history
\* entries listing at most one node.
OneNodeAnswer ==
  (~IsNone(history) /\ PID \in DOMAIN Val(history)) =>
     Len(Val(history)[PID]["outputs"]) <= 1

InitJobWait == InitPoll

NextJobWait ==
  \/ (CompPoll /\ OneNodeAnswer')
  \/ CompSleep
  \/ DownloadVariants
  \/ (MaskPoll /\ OneNodeAnswer')
  \/ MaskSleep

SpecJobWait == InitJobWait /\ [][NextJobWait]_vars /\ WF_vars(NextJobWait)

\* --------------------------------------------- claims on the wait's end
\* download_processed_image has returned; _poll_history has returned or
\* raised.
WaitReturned ==
  IF pipeline = "compositing" THEN pc = "returned" /\ result \in {"True", "False"}
  ELSE \/ pc = "fetch" /\ result = "history"
       \/ pc = "returned" /\ result \in {"504", "raised"}

\* C33: download_processed_image makes its k-th history request with loop
\* index k - 1 < POLLING_TIMEOUT // POLLING_INTERVAL = 100, the index growing
\* by one between two requests, so at most 100 requests are made for a job;
\* the call always returns True or False. _poll_history never polls once the
\* deadline has passed and always ends: with a history, with HTTP 504, or,
\* only when a request did not return an answer, with that request's
\* exception. No step follows the return.
C33_BoundedPollsAndTermination ==
  /\ [][ /\ pipeline = "compositing" =>
              /\ response' # "none" /\ pc = "poll" =>
                   (attempt < 100 /\ attempt < POLLING_TIMEOUT \div POLLING_INTERVAL
                    /\ attempt' = attempt)
              /\ pc' = "poll" => attempt' = attempt + 1
         /\ pipeline = "masking" =>
              /\ pc = "poll" => clock < deadline
              /\ (result' = "raised" /\ result # "raised") => loop_exit' = "exception"
         /\ ~WaitReturned ]_vars
  /\ <>WaitReturned

\* C33 witness: download_processed_image made its hundredth request and
\* returned False when the range of the loop was used up.
C33_Witness ==
  /\ pipeline = "compositing" /\ pc = "returned" /\ result = "False"
  /\ loop_exit = "exhausted" /\ attempt = 100

\* ------------------------------------ claims on the frame of the mutation
\* The input key update_workflow writes in a designated node.
WrittenKey(n) == IF n = "448" THEN "string" ELSE "image"

\* C34: a graph returned by update_workflow has exactly the node identifiers
\* of the template; every node other than 454, 439, 256, 110 and 448 is the
\* template's; each of these five has the template's keys and values outside
\* 'inputs', and inside 'inputs' the template's keys and values except
\* 'image' ('string' for 448).
C34_UpdateFrame ==
  (pipeline = "compositing" /\ ~IsNone(updated_workflow)) =>
    LET g == Val(updated_workflow)
    IN /\ DOMAIN g = DOMAIN workflow
       /\ \A n \in DOMAIN g :
            IF n \notin CompNodes THEN g[n] = workflow[n]
            ELSE /\ DOMAIN g[n] = DOMAIN workflow[n]
                 /\ \A k \in DOMAIN g[n] \ {"inputs"} : g[n][k] = workflow[n][k]
                 /\ DOMAIN g[n]["inputs"] \ {WrittenKey(n)} =
                      DOMAIN workflow[n]["inputs"] \ {WrittenKey(n)}
                 /\ \A k \in DOMAIN g[n]["inputs"] \ {WrittenKey(n)} :
                      g[n]["inputs"][k] = workflow[n]["inputs"][k]

\* C34 witness: on a template holding the five nodes, update_workflow
\* returned a graph with the five values written and the other input key of
\* node 454 kept.
C34_Witness ==
  /\ pipeline = "compositing" /\ pc = "submit" /\ workflow = FullTemplate
  /\ \A n \in CompNodes :
       Val(updated_workflow)[n]["inputs"][WrittenKey(n)] #
         workflow[n]["inputs"][WrittenKey(n)]
  /\ Val(updated_workflow)["454"]["inputs"]["upload"] = "image"
  /\ Val(updated_workflow)[OtherNode] = Sampler

\* --------------------------------- specification: the counts of a batch
\* process_images_api over every template shape, with the per-pair handler
\* (lines 558-561) that counts a pair whose body raised.

\* Lines 558-561: an exception raised by a statement of the loop body is
\* logged, the pair is counted as failed and the loop continues.
PairRaises ==
  /\ pipeline = "compositing" /\ pc \in PairStages
  /\ PairFailed("exception")
  /\ UNCHANGED << submissions, waits, pair_uploads >>
  /\ UNCHANGED << pvars, svars, fvars, uvars, dvars, rvars >>
  /\ UNCHANGED << pipeline, loaded, workflow, updated_workflow, graph, graph_copy,
                  mode, n_items, input_filename, mask_filename, bg_filename,
                  style_filename, default_prompt, comfy_name, prompt, own_input,
                  own_mask, successful_images, processed_images, outcome >>

InitCount == InitGraph /\ pipeline = "compositing"

NextCount ==
  \/ UploadBackground
  \/ ResolveStyles
  \/ UploadStyles
  \/ MatchPairs
  \/ UploadPair
  \/ UpdateWorkflow
  \/ SubmitWorkflow
  \/ DownloadResult
  \/ PairRaises
  \/ FinishBatch

SpecCount == InitCount /\ [][NextCount]_vars

\* --------------------------------------------------- claims on the counts
\* C35: in the pair loop of process_images_api every pair already left is
\* counted exactly once: successful_images + failed_images is the number of
\* pairs before the current one while a pair is processed, and the number of
\* matched pairs when the loop has ended, whichever way each pair went
\* (upload failure, mutation failure, submit failure, download failure,
\* raised exception, success).
C35_EveryPairCountedOnce ==
  pipeline = "compositing" =>
    /\ pc \in PairStages =>
         /\ successful_images + failed_images = idx - 1
         /\ idx <= Len(matching_pairs)
    /\ (pc \in {"loop_end", "done"} /\ matching_pairs # << >>) =>
         successful_images + failed_images = Len(matching_pairs)
    /\ matching_pairs = << >> => successful_images + failed_images = 0

\* C35 witness: of two pairs the first succeeded and the second raised
\* after its job was submitted; the loop ended with one counted each way.
C35_Witness ==
  /\ pipeline = "compositing" /\ pc = "loop_end" /\ Len(matching_pairs) = 2
  /\ successful_images = 1 /\ failed_images = 1 /\ error = "exception"
  /\ Len(submissions) = 2

\* ------------------------------ specification: the output files of a batch
\* process_images_api lines 547-551 with download_processed_image lines
\* 337-382, pair after pair. A file name is a sequence of pieces, so that
\* f"processed_{image_file}" and f"{base_name}_variant_{n}{ext}" are
\* concatenations.
MaxOutputs == 2           \* images the engine lists for one job

\* The input images a batch may pair (each with its mask): os.listdir gives
\* distinct names.
OutputInputs ==
  { [base |-> << "a" >>, ext |-> ".png"],
    [base |-> << "b" >>, ext |-> ".png"],
    [base |-> << "a" >>, ext |-> ".jpg"],
    [base |-> << "a", "_variant_", 2 >>, ext |-> ".png"] }

\* Lines 548-549 and 341-343: output_path for image_file, as os.path splits
\* it again.
pair_output_path(image_file) ==
  [dir |-> "out/processed_images",
   name |-> << "processed_" >> \o image_file.base,
   ext |-> image_file.ext]

\* The k-th image the engine lists for the job of pair i.
JobImage(i, k) == Img(<< i, k >>)

\* Lines 547-549 and 337-345: the pair's job is complete; its destination
\* and the images of its node.
StartDownload ==
  /\ pipeline = "compositing" /\ pc = "pair_output"
  /\ output_path' = pair_output_path(matching_pairs[idx][1])
  /\ \E n \in 0..MaxOutputs : images' = [k \in 1..n |-> JobImage(idx, k)]
  /\ fetches' = << >> /\ downloaded_count' = 0
  /\ pc' = "download"
  /\ UNCHANGED << written, warnings, result >>
  /\ DownloadFrame

\* Lines 551-556 and 510: the call has returned, the pair is counted and
\* the loop goes to the next pair.
NextOutput ==
  /\ pipeline = "compositing" /\ pc = "returned"
  /\ IF result = "True"
     THEN successful_images' = successful_images + 1 /\ failed_images' = failed_images
     ELSE failed_images' = failed_images + 1 /\ successful_images' = successful_images
  /\ IF idx < n_items THEN idx' = idx + 1 /\ pc' = "pair_output"
     ELSE idx' = idx /\ pc' = "loop_end"
  /\ UNCHANGED << pvars, svars, fvars, jvars, uvars, dvars, rvars >>
  /\ UNCHANGED << pipeline, loaded, workflow, updated_workflow, graph, graph_copy,
                  mode, n_items, input_filename, mask_filename, bg_filename,
                  style_filename, default_prompt, comfy_name, prompt, own_input,
                  own_mask, processed_images, outcome, error >>

\* State when the first pair's job is complete.
InitOutputs ==
  /\ pipeline = "compositing" /\ pc = "pair_output" /\ mode = "batch"
  /\ loaded = EmptyDict /\ workflow = EmptyDict /\ graph = EmptyDict
  /\ prompts_data = << >> /\ input_folder = << >> /\ mask_folder = {}
  /\ n_items \in 1..MaxPairs
  /\ matching_pairs \in { p \in [1..n_items -> OutputInputs \X OutputInputs] :
                            /\ \A i \in 1..n_items : p[i][2] = p[i][1]
                            /\ \A i, j \in 1..n_items : i # j => p[i][1] # p[j][1] }
  /\ updated_workflow = None /\ graph_copy = None /\ idx = 1
  /\ input_filename = None /\ mask_filename = None /\ style_filename = None
  /\ bg_filename = None /\ default_prompt = DEFAULT_PROMPT
  /\ comfy_name = None /\ prompt = None /\ own_input = None /\ own_mask = None
  /\ successful_images = 0 /\ failed_images = 0 /\ processed_images = 0
  /\ outcome = "running" /\ error = "none"
  /\ skipped = << >>
  /\ submissions = << >> /\ waits = {} /\ logged_failures = 0 /\ pair_uploads = 0
  /\ required_styles = {} /\ style_file_matches = {}
  /\ style_images = EmptyDict /\ upload_failures = {}
  /\ result = "idle" /\ clock = 0 /\ attempt = 0 /\ response = "none"
  /\ history = None /\ loop_exit = "none" /\ node = None
  /\ only_misses = TRUE /\ seen_non200 = FALSE
  /\ images = << >> /\ fetches = << >> /\ written = << >> /\ downloaded_count = 0
  /\ output_path = pair_output_path(matching_pairs[1][1])
  /\ IdleUpload /\ IdleRequest

NextOutputs ==
  \/ StartDownload
  \/ FetchVariant
  \/ FinishDownload
  \/ NextOutput

SpecOutputs == InitOutputs /\ [][NextOutputs]_vars

\* ---------------------------------------------- claims on the output files
\* The pair whose job produced a written file.
PairOf(w) == w.entry.filename[1]

\* C36: no file written for one pair has the path of a file written for
\* another pair, whatever the names of the input images.
C36_OutputFilesDisjoint ==
  \A j, k \in DOMAIN written :
    written[j].path = written[k].path => PairOf(written[j]) = PairOf(written[k])

\* ----------------------------- specification: the masking of an archive
\* process_image in archive mode (mask_service.py:231-258) over the member
\* paths of the uploaded archive: _extract_images_from_zip, the image loop,
\* _create_zip_response.
MaxMembers == 3           \* members of the uploaded archive

\* No orchestrator, wait, upload, download or request is in play.
IdleProgram ==
  /\ pc = "none" /\ mode = "none" /\ n_items = 0
  /\ IdleInputs /\ IdleLocals /\ IdlePoll /\ IdleUpload /\ IdleDownload
  /\ IdleHandler /\ IdleStyle /\ IdleNames /\ IdleServer

\* A member path: its directory part and its base name, split as
\* os.path.splitext does.
ArchivePaths ==
  { [dir |-> d, base |-> b, ext |-> ".png"] : d \in {"", "x/"}, b \in {"a", "b"} }
  \cup { [dir |-> "", base |-> "b", ext |-> ".JPG"],
         [dir |-> "", base |-> "notes", ext |-> ".txt"] }

\* Line 179: filename.lower().endswith(('.png', '.jpg', '.jpeg', '.bmp',
\* '.tiff', '.webp'))
ArchiveImageExts == {".png", ".jpg", ".jpeg", ".bmp", ".tiff", ".webp"}
is_archive_image(p) == lower(p.ext) \in ArchiveImageExts

\* os.path.basename(filename)
basename(p) == [base |-> p.base, ext |-> p.ext]

\* Line 208: the name an image is stored under in the result ZIP.
safe_filename(filename) == basename(filename)

\* The elements of seq that satisfy keep[i], in order.
RECURSIVE Kept(_, _)
Kept(seq, keep) ==
  IF seq = << >> THEN << >>
  ELSE Kept(SubSeq(seq, 1, Len(seq) - 1), keep)
       \o (IF keep[Len(seq)] THEN << seq[Len(seq)] >> ELSE << >>)

ArchiveFrame ==
  UNCHANGED << gvars, pvars, svars, fvars, jvars, uvars, dvars, hvars, mvars, nvars,
               cvars, evars, xvars >>

\* _extract_images_from_zip (lines 162-198): the image members that can be
\* read, in archive order; none raises HTTP 400.
ExtractImagesFromZip ==
  /\ a_pc = "extract"
  /\ \E readable \in [DOMAIN members -> BOOLEAN] :
       LET imgs == Kept(members, [i \in DOMAIN members |->
                                    is_archive_image(members[i]) /\ readable[i]])
       IN /\ zip_images' = imgs
          /\ a_pc' = IF imgs = << >> THEN "raised" ELSE "loop"
  /\ UNCHANGED << a_idx, members, processed_names, zip_entries >>
  /\ ArchiveFrame

\* Lines 238-249: one image of the loop; its result is appended, or its
\* exception logged.
ProcessArchiveImage ==
  /\ a_pc = "loop"
  /\ \E ok \in BOOLEAN :
       processed_names' = IF ok THEN Append(processed_names, zip_images[a_idx])
                          ELSE processed_names
  /\ a_idx' = a_idx + 1
  /\ a_pc' = IF a_idx < Len(zip_images) THEN "loop" ELSE "zip"
  /\ UNCHANGED << members, zip_images, zip_entries >>
  /\ ArchiveFrame

\* Lines 251-258 and 200-216: no result raises HTTP 500; else every result
\* is written to the ZIP under its safe_filename.
CreateZipResponse ==
  /\ a_pc = "zip"
  /\ IF processed_names = << >>
     THEN a_pc' = "raised" /\ zip_entries' = zip_entries
     ELSE /\ a_pc' = "done"
          /\ zip_entries' = Some([i \in DOMAIN processed_names |->
                                    safe_filename(processed_names[i])])
  /\ UNCHANGED << a_idx, members, zip_images, processed_names >>
  /\ ArchiveFrame

InitArchive ==
  /\ pipeline = "masking" /\ IdleProgram /\ IdleRename /\ IdleCall
  /\ a_pc = "extract" /\ a_idx = 1
  /\ members \in { m \in UNION { [1..n -> ArchivePaths] : n \in 0..MaxMembers } :
                     \A i, j \in DOMAIN m : i # j => m[i] # m[j] }
  /\ zip_images = << >> /\ processed_names = << >> /\ zip_entries = None

NextArchive ==
  \/ ExtractImagesFromZip
  \/ ProcessArchiveImage
  \/ CreateZipResponse

SpecArchive == InitArchive /\ [][NextArchive]_vars

\* ------------------------------------------- claims on the result ZIP
\* C37: the result ZIP holds one entry per processed image, in the order of
\* the input archive, each under the base name of its member, and the
\* entries of different images have different names, whatever the member
\* paths of the input archive.
C37_ZipEntriesOnePerImageDistinct ==
  a_pc = "done" =>
    LET z == Val(zip_entries)
    IN /\ Len(z) = Len(processed_names)
       /\ \A i \in DOMAIN z : z[i] = basename(processed_names[i])
       /\ \E keep \in [DOMAIN members -> BOOLEAN] : processed_names = Kept(members, keep)
       /\ \A i, j \in DOMAIN z : i # j => z[i] # z[j]

\* ------------------------------- specification: the renaming of closeups
\* FaceDetectionProcessor.process_images (rename_service.py:93-187) over the
\* image files of an input directory tree.
MaxFiles == 3             \* files of the input directory tree

\* A file of the input tree: its directory below input_dir, and its file
\* name as a stem, the number of a "(n)" tail (0 for none) and an extension,
\* so that the name "closeup(1).jpg" of an input file is the name that
\* next_closeup_name builds.
FileName(stem, n, ext) == [stem |-> stem, n |-> n, ext |-> ext]
RenamePaths ==
  { [dir |-> d, name |-> nm] :
      d \in {"", "x/"},
      nm \in {FileName("a", 0, ".jpg"), FileName("closeup", 1, ".jpg")} }
  \cup { [dir |-> "", name |-> FileName("notes", 0, ".txt")] }

\* Line 101: file.lower().endswith(('.png', '.jpg', '.jpeg', '.bmp',
\* '.tiff', '.webp'))
is_rename_image(p) == lower(p.name.ext) \in ArchiveImageExts

\* next_closeup_name (lines 84-91): the first closeup(index){ext}, counting
\* from index, that is not in existing_names.
RECURSIVE closeup_from(_, _, _)
closeup_from(index, existing, ext) ==
  IF FileName("closeup", index, ext) \notin existing
  THEN FileName("closeup", index, ext)
  ELSE closeup_from(index + 1, existing, ext)

next_closeup_name(existing, ext) == closeup_from(1, existing, ext)

\* The image of the loop at line 124: those before it were copied or failed.
e_next == Len(copied) + Cardinality(errors) + 1

RenameFrame ==
  UNCHANGED << gvars, pvars, svars, fvars, jvars, uvars, dvars, hvars, mvars, nvars,
               cvars, avars, xvars >>

\* Lines 97-122: the image files of the tree, in the order of os.walk; none
\* returns the empty summary.
WalkInput ==
  /\ e_pc = "walk"
  /\ \E tree \in { t \in UNION { [1..n -> RenamePaths] : n \in 0..MaxFiles } :
                     \A i, j \in DOMAIN t : i # j => t[i] # t[j] } :
       LET imgs == Kept(tree, [i \in DOMAIN tree |-> is_rename_image(tree[i])])
       IN /\ image_files' = imgs
          /\ e_pc' = IF imgs = << >> THEN "done" ELSE "loop"
  /\ UNCHANGED << existing_names, copied, errors >>
  /\ RenameFrame

\* Lines 124-174, one image: a face keeps the file name, no face takes the
\* next closeup name, which joins existing_names; the file is copied to
\* output_dir under that name; an exception is recorded and the loop goes on.
RenameImage ==
  /\ e_pc = "loop"
  /\ LET img_path == image_files[e_next]
         filename == img_path.name
         after    == IF e_next < Len(image_files) THEN "loop" ELSE "done"
     IN \/ \E has_face \in BOOLEAN :
             LET new_filename == IF has_face THEN filename
                                 ELSE next_closeup_name(existing_names, filename.ext)
             IN /\ existing_names' = IF has_face THEN existing_names
                                     ELSE existing_names \cup {new_filename}
                /\ copied' = Append(copied, [src |-> img_path, name |-> new_filename,
                                             renamed |-> ~has_face])
                /\ errors' = errors
                /\ e_pc' = after
        \/ /\ errors' = errors \cup {img_path}
           /\ e_pc' = after
           /\ UNCHANGED << existing_names, copied >>
  /\ UNCHANGED image_files
  /\ RenameFrame

InitRename ==
  /\ pipeline = "rename" /\ IdleProgram /\ IdleArchive /\ IdleCall
  /\ e_pc = "walk" /\ image_files = << >> /\ existing_names = {}
  /\ copied = << >> /\ errors = {}

NextRename ==
  \/ WalkInput
  \/ RenameImage

SpecRename == InitRename /\ [][NextRename]_vars

\* ------------------------------------------ claims on the output names
\* C39: every image that process_images copies to the output directory gets
\* a file name different from that of every other copied image (generated
\* against generated, generated against kept, kept against kept), so that
\* no output file is overwritten.
C39_OutputNamesDistinct ==
  \A i, j \in DOMAIN copied : i # j => copied[i].name # copied[j].name

\* ------------------------- specification: background names and gender
\* modify_backgrounds_for_gender (promptmap_service.py:471-490) applied to a
\* list of background names; a name is its sequence of characters.
MaxBackgrounds == 2       \* names in the list handed to the function

WOMEN_SUFFIX == << "_", "w", "o", "m", "e", "n" >>   \* '_women'
SUFFIX_CUT == 7           \* background[:-7]

BackgroundNames ==
  { << "a", "b" >>, << "a", "b" >> \o WOMEN_SUFFIX, << "b" >> \o WOMEN_SUFFIX,
    WOMEN_SUFFIX, << "w", "o", "m", "e", "n" >> }
Genders == {"Men", "Women", "Unknown"}

\* str.endswith
ends_with(s, suffix) ==
  /\ Len(s) >= Len(suffix)
  /\ SubSeq(s, Len(s) - Len(suffix) + 1, Len(s)) = suffix

\* s[:-n] of Python: all but the last n characters, nothing when s is
\* shorter.
drop_last(s, n) == SubSeq(s, 1, IF Len(s) > n THEN Len(s) - n ELSE 0)

\* Lines 478-488: one name of the loop.
modify_background(background, gender) ==
  IF gender = "Women" /\ ~ends_with(background, WOMEN_SUFFIX)
  THEN background \o WOMEN_SUFFIX
  ELSE IF gender = "Men" /\ ends_with(background, WOMEN_SUFFIX)
       THEN drop_last(background, SUFFIX_CUT)
       ELSE background

\* Lines 471-490.
modify_backgrounds_for_gender(backgrounds, gender) ==
  IF backgrounds = << >> THEN backgrounds
  ELSE [i \in DOMAIN backgrounds |-> modify_background(backgrounds[i], gender)]

CallFrame ==
  UNCHANGED << gvars, pvars, svars, fvars, jvars, uvars, dvars, hvars, mvars, nvars,
               cvars, avars, evars >>

\* The call and its return.
ModifyBackgrounds ==
  /\ x_pc = "call"
  /\ x_result' = Some(modify_backgrounds_for_gender(x_args.backgrounds, x_args.gender))
  /\ x_pc' = "returned"
  /\ UNCHANGED x_args
  /\ CallFrame

InitGender ==
  /\ pipeline = "promptmap" /\ IdleProgram /\ IdleArchive /\ IdleRename
  /\ x_pc = "call" /\ x_result = None
  /\ x_args \in [backgrounds : UNION { [1..n -> BackgroundNames] : n \in 0..MaxBackgrounds },
                 gender : Genders]

NextGender ==
  \/ ModifyBackgrounds

SpecGender == InitGender /\ [][NextGender]_vars

\* ------------------------------------------- claims on the gender names
\* C38: for 'Men', a name ending in '_women' comes back with exactly that
\* suffix removed; for 'Women', a name not ending in '_women' comes back
\* with '_women' appended; so a suffix-free name modified for 'Women' and
\* then for 'Men' is the original name again.
C38_SuffixRemovedAndRoundTrip ==
  x_pc = "returned" =>
    LET backgrounds == x_args.backgrounds
        modified == Val(x_result)
    IN /\ DOMAIN modified = DOMAIN backgrounds
       /\ \A i \in DOMAIN backgrounds :
            /\ (x_args.gender = "Men" /\ ends_with(backgrounds[i], WOMEN_SUFFIX))
                 => modified[i] \o WOMEN_SUFFIX = backgrounds[i]
            /\ (x_args.gender = "Women" /\ ~ends_with(backgrounds[i], WOMEN_SUFFIX))
                 => /\ modified[i] = backgrounds[i] \o WOMEN_SUFFIX
                    /\ modify_background(modified[i], "Men") = backgrounds[i]

\* --------------------------- specification: the choice of the engine URL
\* The mask route hands the form field, the header and the query parameter
\* to _pick_comfy_url (routes/mask.py:43-48, mask_service.py:20-30); a URL
\* is its sequence of characters.
MaxUrlLen == 2            \* characters of a URL value

UrlChars == {"h", "/", " "}
UrlValues == UNION { [1..n -> UrlChars] : n \in 0..MaxUrlLen }
OptionalUrls == {None} \cup { Some(u) : u \in UrlValues }

\* str.strip() leaves something: some character is not whitespace.
strip_nonempty(s) == \E i \in DOMAIN s : s[i] # " "

\* str.rstrip('/')
RECURSIVE rstrip_slash(_)
rstrip_slash(s) ==
  IF s # << >> /\ s[Len(s)] = "/" THEN rstrip_slash(SubSeq(s, 1, Len(s) - 1)) ELSE s

\* Line 23: url and url.strip()
is_given_not_none(url) == url # None
is_given(url) == url # None /\ Val(url) # << >> /\ strip_nonempty(Val(url))

\* Lines 22-30 from the i-th of the candidates on: the first one given,
\* normalized; HTTP 400 past the last.
RECURSIVE pick_from(_, _)
pick_from(urls, i) ==
  IF i > Len(urls) THEN [raised |-> TRUE, url |-> << >>]
  ELSE IF is_given(urls[i])
       THEN [raised |-> FALSE, url |-> rstrip_slash(Val(urls[i])) \o << "/" >>]
       ELSE pick_from(urls, i + 1)

pick_comfy_url(form_url, header_url, query_url) ==
  pick_from(<< form_url, header_url, query_url >>, 1)

\* routes/mask.py:43-48: the call of the route, and its return or its HTTP
\* 400.
PickComfyUrl ==
  /\ x_pc = "call"
  /\ LET picked == pick_comfy_url(x_args.comfy_url, x_args.x_comfy_url,
                                  x_args.comfy_url_query)
     IN /\ x_result' = IF picked.raised THEN None ELSE Some(picked.url)
        /\ x_pc' = IF picked.raised THEN "raised" ELSE "returned"
  /\ UNCHANGED x_args
  /\ CallFrame

InitPick ==
  /\ pipeline = "masking" /\ IdleProgram /\ IdleArchive /\ IdleRename
  /\ x_pc = "call" /\ x_result = None
  /\ x_args \in [comfy_url : OptionalUrls, x_comfy_url : OptionalUrls,
                 comfy_url_query : OptionalUrls]

NextPick ==
  \/ PickComfyUrl

SpecPick == InitPick /\ [][NextPick]_vars

\* ------------------------------------------- claims on the engine URL
\* A value that is present and holds a character other than whitespace.
NonBlank(o) == o # None /\ \E i \in DOMAIN Val(o) : Val(o)[i] # " "

\* r is u with its trailing '/' characters replaced by one '/'.
EndsWithOneSlashOf(r, u) ==
  /\ r # << >> /\ r[Len(r)] = "/"
  /\ Len(r) >= 2 => r[Len(r) - 1] # "/"
  /\ Len(r) - 1 <= Len(u)
  /\ \A i \in 1..Len(u) : u[i] = IF i <= Len(r) - 1 THEN r[i] ELSE "/"

\* C40: _pick_comfy_url returns the first non-blank value in the order form
\* field, header, query parameter, ending with exactly one '/', and fails
\* with HTTP 400 when all three are missing or blank; a blank value never
\* hides a non-blank one of lower priority.
C40_FirstNonBlankByPriority ==
  x_pc # "call" =>
    LET prio == << x_args.comfy_url, x_args.x_comfy_url, x_args.comfy_url_query >>
        given == { i \in DOMAIN prio : NonBlank(prio[i]) }
    IN IF given = {}
       THEN x_pc = "raised" /\ x_result = None
       ELSE /\ x_pc = "returned"
            /\ \E k \in given :
                 /\ \A j \in given : k <= j
                 /\ EndsWithOneSlashOf(Val(x_result), Val(prio[k]))

\* A blank form field and an empty header before a usable query parameter,
\* which comes back with its one trailing slash.
C40_Witness ==
  /\ x_pc = "returned"
  /\ x_args.comfy_url = Some(<< " " >>)
  /\ x_args.x_comfy_url = Some(<< >>)
  /\ x_args.comfy_url_query = Some(<< "h", "/" >>)
  /\ x_result = Some(<< "h", "/" >>)

====
